---- MODULE Spec2Model ----
(***************************************************************************)
(* Verification model of the SAI analysis execution pipeline:              *)
(*   - Result Handoff Store (issue_result_token / consume_result_token)    *)
(*   - Engine Invocation Protocol (run_r_analysis_with_dataset)            *)
(*   - AnalysisPage.executeAnalysis, DesignPage.executeDesign,             *)
(*     ResultPage.handlePayload                                            *)
(*   - cli.R column order restoration                                      *)
(*   - utils.R value formatting and the zod cell / table schemas           *)
(* The Rust backend (src-tauri) is not part of the source tree; the store  *)
(* and the process runner are modelled from the written specification.     *)
(***************************************************************************)
EXTENDS Integers, Sequences, FiniteSets, TLC

\* ------------------------------------------------------------------------
\* Bounds
\* ------------------------------------------------------------------------
MaxTokens == 1      \* tokens that can be issued in one behaviour
MaxTime == 3        \* clock ticks observed
MaxTtl == 2         \* longest ttl (in ticks) given to an entry

VARIABLES
  \* Result Handoff Store
  store,        \* token -> [result, createdAt, ttl] for the entries held
  meta,         \* token -> [result, createdAt, ttl] of every token ever issued
  now,          \* clock
  nextTok,      \* next token id to hand out
  lockHolder,   \* 0 when the store lock is free, else the consumer holding it
  cpc,          \* consumer -> position in its Consume call
  ctok,         \* consumer -> token of its call
  cres,         \* consumer -> outcome read under the lock and returned
  cinfo,        \* consumer -> facts of the call: live, race, after, stale, present
  okCount       \* token -> number of Consume calls that returned its result

VARIABLES
  \* Engine Invocation Protocol
  epc,          \* "idle" | "waiting" | "returned"
  ereq,         \* the request being served: [analysis, timeout]
  proc,         \* external process: [state, code, out]
  elapsed,      \* time waited on the process so far
  eres          \* what Invoke returned: [kind, table]

VARIABLES
  \* analysis / design panel window
  pkind,        \* "analysis" (AnalysisPage) or "design" (DesignPage)
  atype,        \* analysis type taken from the URL query
  ready,        \* path, sheet and selection present (analysis) / canRun (design)
  running,      \* React state running
  aerror,       \* React state error ("null" or the message)
  apc,          \* position inside executeAnalysis / executeDesign
  awin,         \* "open" | "closed": the panel's own window
  aresult,      \* result held by the run
  atoken,       \* token held by the run
  pending,      \* localStorage 'sai:pending-result-payload' (token of the payload)
  runCalls,     \* IPC calls made by the current run: [engine, issue, open, close]
  lastEngine,   \* outcome of the current run's engine call
  clicks,       \* Run clicks accepted
  engineCalls,  \* run_r_analysis_with_dataset calls made
  inflight,     \* run_r_analysis_with_dataset calls made and not yet answered
  \* result page window
  rwin,         \* the result window exists
  rmounted,     \* ResultPage mount effect has run
  listening,    \* 'result:load' listener registered
  evq,          \* 'result:load' payloads emitted and not yet handled
  entries,      \* React state entries
  consumedTokens, \* consumedTokensRef
  cache,        \* sessionStorage 'sai:result-token:<token>'
  rerror,       \* React state error of the result page
  hpc,          \* handlePayload activation -> position
  htok,         \* handlePayload activation -> token of its payload
  hcalls,       \* handlePayload activation -> consume calls made for its payload
  delivered,    \* payloads handed to handlePayload
  consumeCalls  \* consume_result_token calls made

VARIABLES
  \* cli.R
  cliPc,        \* "start" | "read" | "restored"
  rawObj,       \* the input JSON: [hasData, data, hasOrder, order]
  dat,          \* the data frame: sequence of columns [name, vals]
  ord           \* the __order hint read from the input: [given, names]

VARIABLES
  \* value codec: an R value, its encoding, the JSON cell, the decoded cell
  codecPc,      \* "start" | "encoded" | "written" | "wire" | "decoded"
  cval,         \* the R value handed to the encoder
  rval,         \* the R value the encoder returned
  wire,         \* the JSON cell
  decoded       \* the cell after zCellValue

VARIABLES
  \* correlation.R
  corrPc,       \* "start" | "tested" | "parsed"
  corrIn,       \* the inputs: [n, alt, use, seed, x]
  corrRes,      \* .CorrTest's result: the corr, n, df, t and p matrices
  corrOut       \* the table written for the UI

VARIABLES
  \* descriptive.R / utils.R Sort
  sortPc,       \* "start" | "parsed" | "sorted"
  sortIn,       \* the inputs: [order, means]
  sortParsed,   \* the table of .DescribeParsed
  sortOut       \* the table RunDescriptive returns

sortVars == <<sortPc, sortIn, sortParsed, sortOut>>

VARIABLES
  \* a call into an R handler and what the frontend shows of it
  callPc,       \* "start" | "returned" | "valid" | "stopped" | "shown"
  callIn,       \* the arguments of the call
  callOut,      \* the table returned or the error raised
  callShown     \* the Additional text the design table shows

callVars == <<callPc, callIn, callOut, callShown>>

VARIABLES
  \* RunCorrelation and the CorrelationTables view
  mcPc,         \* "start" | "returned" | "stopped" | "viewed"
  mcIn,         \* the arguments: [methods, alt, use, seed, x]
  mcOut,        \* the combined table
  mcView        \* the sections CorrelationTables builds from it

multiVars == <<mcPc, mcIn, mcOut, mcView>>

VARIABLES
  \* .LinearRegressionParsed and the MultiBlockTable view
  mbPc,         \* "start" | "scan" | "inner" | "done"
  mbIn,         \* the fit: [indep, intercept, seed, perfect]
  mbData,       \* the table handed to MultiBlockTable
  mbI,          \* the scan index i (rows before it are consumed)
  mbCur,        \* the block being accumulated: [title, headers, rows]
  mbBlocks      \* the blocks pushed so far

blockVars == <<mbPc, mbIn, mbData, mbI, mbCur, mbBlocks>>

VARIABLES
  \* one run of cli.R
  scPc,         \* "args" | "load" | "read" | "dispatch" | "write" | "done" | "stopped"
  scIn,         \* the command line and the files on disk
  scOut,        \* what the handler returned or raised
  scErr,        \* the message of the stop that ended the script
  outFile,      \* the file at output_path: [exists, content]
  outWrites     \* how often the script opened output_path for writing

scriptVars == <<scPc, scIn, scOut, scErr, outFile, outWrites>>

VARIABLES
  \* RegressionVariableSelector and the selection its parent holds
  allVariables, \* the headers of the sheet
  dependent,    \* << >> for null, <<name>> for a string
  independents, \* the independents, in the order they were added
  available,    \* the memoized left pane
  availChecked, \* names whose availChecked entry is true
  indepChecked  \* names whose indepChecked entry is true

selectorVars == <<allVariables, dependent, independents, available, availChecked, indepChecked>>

VARIABLES
  \* the interaction loop of RunRegression
  irPc,         \* "loop" | "done" | "stopped"
  irX,          \* the data frame x: columns [name, vals]
  irCols,       \* cols: the column names before the loop
  irItems,      \* options$interactions: items [left, right, label]
  irI,          \* the item the loop is at
  irLabels,     \* interaction_labels
  irIndep,      \* indep
  irErr         \* the message of the stop

interVars == <<irPc, irX, irCols, irItems, irI, irLabels, irIndep, irErr>>

storeVars == <<store, meta, now, nextTok, lockHolder, cpc, ctok, cres, cinfo, okCount>>
engineVars == <<epc, ereq, proc, elapsed, eres>>

panelVars == <<pkind, atype, ready, running, aerror, apc, awin, aresult, atoken, pending,
               runCalls, lastEngine, clicks, engineCalls, inflight>>
resultVars == <<rwin, rmounted, listening, evq, entries, consumedTokens, cache, rerror,
                hpc, htok, hcalls, delivered, consumeCalls>>

cliVars == <<cliPc, rawObj, dat, ord>>

codecVars == <<codecPc, cval, rval, wire, decoded>>

corrVars == <<corrPc, corrIn, corrRes, corrOut>>

vars == <<storeVars, engineVars, panelVars, resultVars, cliVars, codecVars, corrVars, sortVars, callVars, multiVars, blockVars, scriptVars, selectorVars, interVars>>

\* ------------------------------------------------------------------------
\* Wire values and tables  (src/src/dto.ts)
\* ------------------------------------------------------------------------
\* a JSON cell: kind k with string payload s or integer payload v
WStr(x) == [k |-> "str", s |-> x, v |-> 0]
WNum(x) == [k |-> "num", s |-> "", v |-> x]
WBool(b) == [k |-> "bool", s |-> "", v |-> IF b THEN 1 ELSE 0]
WNull == [k |-> "null", s |-> "", v |-> 0]
WUndef == [k |-> "undef", s |-> "", v |-> 0]
WObj == [k |-> "obj", s |-> "", v |-> 0]

\* zCellValue: union of string, number, boolean, null, undefined;
\* undefined is transformed to null
ZCellAccepts_Strict(c) == c.k \in {"str", "num", "bool"}
ZCellAccepts(c) == c.k \in {"str", "num", "bool", "null", "undef"}

ZCellValue_Keep(c) == c
ZCellValue(c) == IF c.k = "undef" THEN WNull ELSE c

\* zParsedTable.superRefine: one issue per row whose length differs from
\* headers.length
ZRowIssues_None(t) == {}
ZRowIssues(t) == {i \in 1..Len(t.rows) : Len(t.rows[i]) # Len(t.headers)}

ZCellsOk(t) == \A i \in 1..Len(t.rows) : \A j \in 1..Len(t.rows[i]) : ZCellAccepts(t.rows[i][j])

\* zParsedTable.safeParse(t)
ZParsedTableParse(t) ==
  IF ZCellsOk(t) /\ ZRowIssues(t) = {}
  THEN [success |-> TRUE,
        data |-> [headers |-> t.headers,
                  rows |-> [i \in 1..Len(t.rows) |->
                              [j \in 1..Len(t.rows[i]) |-> ZCellValue(t.rows[i][j])]]]]
  ELSE [success |-> FALSE, data |-> [headers |-> << >>, rows |-> << >>]]

NoTable == [headers |-> << >>, rows |-> << >>]

\* tables an engine run can hand back: one well-formed (with a null and an
\* undefined cell), one with a short row, one with a long row
TableGood == [headers |-> <<"Variable", "Mean">>,
              rows |-> << <<WStr("A"), WStr("2.000")>>, <<WStr("B"), WNull>>,
                          <<WStr("C"), WUndef>> >>]
TableShortRow == [headers |-> <<"Variable", "Mean">>,
                  rows |-> << <<WStr("A"), WStr("2.000")>>, <<WStr("B")>> >>]
TableLongRow == [headers |-> <<"Variable", "Mean">>,
                 rows |-> << <<WStr("A"), WStr("2.000"), WStr("x")>> >>]
SampleTables == {TableGood, TableShortRow, TableLongRow}

\* ------------------------------------------------------------------------
\* Result Handoff Store  (spec section 4.4, section 3 "Handoff Token Entry")
\* ------------------------------------------------------------------------
Consumers == {1, 2}
NoHolder == 0
NoTok == 0
\* token ids a caller may present: the issued ones and one id never issued
TokenIds == 1..(MaxTokens + 1)
StoreResults == {"tableA", "tableB"}
NoResult == "none"

\* an entry expires once ttl has elapsed since createdAt
IsExpired_SweepOnly(e, t) == FALSE
IsExpired(e, t) == t >= e.createdAt + e.ttl

ExpiresAt(tok) == meta[tok].createdAt + meta[tok].ttl

\* the whole-store lock: a Consume enters only when nobody holds it
CanAcquire_NoLock(holder) == TRUE
CanAcquire(holder) == holder = NoHolder

\* what a Consume reads for token tok at time t
LookupOutcome(st, tok, t) ==
  IF tok \notin DOMAIN st THEN [outcome |-> "not_found", result |-> NoResult]
  ELSE IF IsExpired(st[tok], t) THEN [outcome |-> "expired", result |-> NoResult]
  ELSE [outcome |-> "ok", result |-> st[tok].result]

\* removing an entry
RemoveEntry_Keep(st, tok) == st
RemoveEntry(st, tok) == [k \in (DOMAIN st) \ {tok} |-> st[k]]

\* Issue(result) -> token
StoreIssue(st, tok, res, t, ttl) ==
  [k \in (DOMAIN st) \cup {tok} |->
     IF k = tok THEN [result |-> res, createdAt |-> t, ttl |-> ttl] ELSE st[k]]

\* the background sweep removes every entry whose ttl has elapsed
SweepStore(st, t) == [k \in {x \in DOMAIN st : ~IsExpired(st[x], t)} |-> st[k]]

NoSnap == [outcome |-> "none", result |-> NoResult]
NoInfo == [live |-> FALSE, race |-> FALSE, after |-> FALSE, stale |-> FALSE, present |-> FALSE]

InitStoreVars ==
  /\ store = << >>
  /\ meta = << >>
  /\ now = 0
  /\ nextTok = 1
  /\ lockHolder = NoHolder
  /\ cpc = [c \in Consumers |-> "idle"]
  /\ ctok = [c \in Consumers |-> NoTok]
  /\ cres = [c \in Consumers |-> NoSnap]
  /\ cinfo = [c \in Consumers |-> NoInfo]
  /\ okCount = [k \in TokenIds |-> 0]

\* issue_result_token: store(result, ttl) under the lock, return a fresh token
Issue(res, ttl) ==
  /\ nextTok <= MaxTokens
  /\ CanAcquire(lockHolder)
  /\ store' = StoreIssue(store, nextTok, res, now, ttl)
  /\ meta' = StoreIssue(meta, nextTok, res, now, ttl)
  /\ nextTok' = nextTok + 1
  /\ UNCHANGED <<now, lockHolder, cpc, ctok, cres, cinfo, okCount>>
  /\ UNCHANGED <<engineVars, panelVars, resultVars, cliVars, codecVars, corrVars, sortVars, callVars, multiVars, blockVars, scriptVars, selectorVars, interVars>>

InProgress(c) == cpc[c] \in {"called", "locked", "read"}

\* consume_result_token is invoked
ConsumeCall(c, tok) ==
  /\ cpc[c] = "idle"
  /\ cpc' = [cpc EXCEPT ![c] = "called"]
  /\ ctok' = [ctok EXCEPT ![c] = tok]
  /\ cinfo' = [cinfo EXCEPT ![c] =
                 [live |-> tok \in DOMAIN store /\ now < ExpiresAt(tok),
                  race |-> \E d \in Consumers \ {c} : InProgress(d) /\ ctok[d] = tok,
                  after |-> okCount[tok] > 0,
                  stale |-> FALSE, present |-> FALSE]]
  /\ UNCHANGED <<store, meta, now, nextTok, lockHolder, cres, okCount>>
  /\ UNCHANGED <<engineVars, panelVars, resultVars, cliVars, codecVars, corrVars, sortVars, callVars, multiVars, blockVars, scriptVars, selectorVars, interVars>>

\* the call takes the store lock
ConsumeAcquire(c) ==
  /\ cpc[c] = "called"
  /\ CanAcquire(lockHolder)
  /\ lockHolder' = c
  /\ cpc' = [cpc EXCEPT ![c] = "locked"]
  /\ UNCHANGED <<store, meta, now, nextTok, ctok, cres, cinfo, okCount>>
  /\ UNCHANGED <<engineVars, panelVars, resultVars, cliVars, codecVars, corrVars, sortVars, callVars, multiVars, blockVars, scriptVars, selectorVars, interVars>>

\* the call reads the entry and checks expiry (read time)
ConsumeLookup(c) ==
  /\ cpc[c] = "locked"
  /\ cres' = [cres EXCEPT ![c] = LookupOutcome(store, ctok[c], now)]
  /\ cinfo' = [cinfo EXCEPT ![c].present = ctok[c] \in DOMAIN store,
                            ![c].stale = ctok[c] \in DOMAIN meta /\ now >= ExpiresAt(ctok[c])]
  /\ cpc' = [cpc EXCEPT ![c] = "read"]
  /\ UNCHANGED <<store, meta, now, nextTok, lockHolder, ctok, okCount>>
  /\ UNCHANGED <<engineVars, panelVars, resultVars, cliVars, codecVars, corrVars, sortVars, callVars, multiVars, blockVars, scriptVars, selectorVars, interVars>>

\* the call removes the entry it read, releases the lock and returns.
\* An expired entry may be dropped here or left to the sweep.
ConsumeTake(c) ==
  /\ cpc[c] = "read"
  /\ \E drop \in BOOLEAN :
       store' = IF cres[c].outcome = "ok" \/ (cres[c].outcome = "expired" /\ drop)
                THEN RemoveEntry(store, ctok[c]) ELSE store
  /\ lockHolder' = IF lockHolder = c THEN NoHolder ELSE lockHolder
  /\ cpc' = [cpc EXCEPT ![c] = "done"]
  /\ okCount' = IF cres[c].outcome = "ok"
                THEN [okCount EXCEPT ![ctok[c]] = @ + 1] ELSE okCount
  /\ UNCHANGED <<meta, now, nextTok, ctok, cres, cinfo>>
  /\ UNCHANGED <<engineVars, panelVars, resultVars, cliVars, codecVars, corrVars, sortVars, callVars, multiVars, blockVars, scriptVars, selectorVars, interVars>>

\* the caller has its answer; the consumer can call again
ConsumeReturn(c) ==
  /\ cpc[c] = "done"
  /\ cpc' = [cpc EXCEPT ![c] = "idle"]
  /\ ctok' = [ctok EXCEPT ![c] = NoTok]
  /\ cres' = [cres EXCEPT ![c] = NoSnap]
  /\ cinfo' = [cinfo EXCEPT ![c] = NoInfo]
  /\ UNCHANGED <<store, meta, now, nextTok, lockHolder, okCount>>
  /\ UNCHANGED <<engineVars, panelVars, resultVars, cliVars, codecVars, corrVars, sortVars, callVars, multiVars, blockVars, scriptVars, selectorVars, interVars>>

\* background sweep
Sweep ==
  /\ CanAcquire(lockHolder)
  /\ \E k \in DOMAIN store : IsExpired(store[k], now)
  /\ store' = SweepStore(store, now)
  /\ UNCHANGED <<meta, now, nextTok, lockHolder, cpc, ctok, cres, cinfo, okCount>>
  /\ UNCHANGED <<engineVars, panelVars, resultVars, cliVars, codecVars, corrVars, sortVars, callVars, multiVars, blockVars, scriptVars, selectorVars, interVars>>

Tick ==
  /\ now < MaxTime
  /\ now' = now + 1
  /\ UNCHANGED <<store, meta, nextTok, lockHolder, cpc, ctok, cres, cinfo, okCount>>
  /\ UNCHANGED <<engineVars, panelVars, resultVars, cliVars, codecVars, corrVars, sortVars, callVars, multiVars, blockVars, scriptVars, selectorVars, interVars>>

NextStore ==
  \/ \E res \in StoreResults, ttl \in 1..MaxTtl : Issue(res, ttl)
  \/ \E c \in Consumers, tok \in TokenIds : ConsumeCall(c, tok)
  \/ \E c \in Consumers : ConsumeAcquire(c)
  \/ \E c \in Consumers : ConsumeLookup(c)
  \/ \E c \in Consumers : ConsumeTake(c)
  \/ \E c \in Consumers : ConsumeReturn(c)
  \/ Sweep
  \/ Tick

\* ------------------------------------------------------------------------
\* Engine Invocation Protocol  (spec section 4.3, section 6 "Process Runner")
\* ------------------------------------------------------------------------
MaxTimeout == 2     \* longest timeout (in ticks) a caller passes

AnalysisNames == {"descriptive", "correlation", "reliability", "regression", "design"}

NoProc == [state |-> "none", code |-> 0, out |-> NoTable]
NoReq == [analysis |-> "", timeout |-> 0]
NoRes == [kind |-> "none", table |-> NoTable]

\* row-length validation of the decoded output payload
EngineValidate(t) == \A i \in 1..Len(t.rows) : Len(t.rows[i]) = Len(t.headers)

\* the answer for a process that exited within the budget
DecodeExit(p) ==
  IF p.code # 0 THEN [kind |-> "engine_failure", table |-> NoTable]
  ELSE IF EngineValidate(p.out) THEN [kind |-> "table", table |-> p.out]
  ELSE [kind |-> "decode_failure", table |-> NoTable]

\* wait(handle, timeout) gives up once the timeout has elapsed
TimedOut_Late(e, timeout) == e >= timeout + 1
TimedOut(e, timeout) == e >= timeout

InitEngineVars ==
  /\ epc = "idle"
  /\ ereq = NoReq
  /\ proc = NoProc
  /\ elapsed = 0
  /\ eres = NoRes

\* Invoke: serialize the payloads and spawn the process
Invoke(a, timeout) ==
  /\ epc = "idle"
  /\ epc' = "waiting"
  /\ ereq' = [analysis |-> a, timeout |-> timeout]
  /\ proc' = [state |-> "running", code |-> 0, out |-> NoTable]
  /\ elapsed' = 0
  /\ eres' = NoRes
  /\ UNCHANGED <<storeVars, panelVars, resultVars, cliVars, codecVars, corrVars, sortVars, callVars, multiVars, blockVars, scriptVars, selectorVars, interVars>>

\* the external process exits by itself, with an output payload when code = 0
ProcExit(code, out) ==
  /\ proc.state = "running"
  /\ proc' = [state |-> "exited", code |-> code, out |-> IF code = 0 THEN out ELSE NoTable]
  /\ UNCHANGED <<epc, ereq, elapsed, eres>>
  /\ UNCHANGED <<storeVars, panelVars, resultVars, cliVars, codecVars, corrVars, sortVars, callVars, multiVars, blockVars, scriptVars, selectorVars, interVars>>

\* time passes while the caller waits on a running process
WaitTick ==
  /\ epc = "waiting"
  /\ proc.state = "running"
  /\ ~TimedOut(elapsed, ereq.timeout)
  /\ elapsed' = elapsed + 1
  /\ UNCHANGED <<epc, ereq, proc, eres>>
  /\ UNCHANGED <<storeVars, panelVars, resultVars, cliVars, codecVars, corrVars, sortVars, callVars, multiVars, blockVars, scriptVars, selectorVars, interVars>>

\* wait() reports the exit: decode the output or report the failure
WaitExit ==
  /\ epc = "waiting"
  /\ proc.state = "exited"
  /\ eres' = DecodeExit(proc)
  /\ epc' = "returned"
  /\ UNCHANGED <<ereq, proc, elapsed>>
  /\ UNCHANGED <<storeVars, panelVars, resultVars, cliVars, codecVars, corrVars, sortVars, callVars, multiVars, blockVars, scriptVars, selectorVars, interVars>>

\* wait() reports timedOut: kill the process, return a timeout failure
WaitTimeout ==
  /\ epc = "waiting"
  /\ proc.state = "running"
  /\ TimedOut(elapsed, ereq.timeout)
  /\ proc' = [proc EXCEPT !.state = "killed"]
  /\ eres' = [kind |-> "timeout", table |-> NoTable]
  /\ epc' = "returned"
  /\ UNCHANGED <<ereq, elapsed>>
  /\ UNCHANGED <<storeVars, panelVars, resultVars, cliVars, codecVars, corrVars, sortVars, callVars, multiVars, blockVars, scriptVars, selectorVars, interVars>>

\* the caller takes the answer
InvokeDone ==
  /\ epc = "returned"
  /\ epc' = "idle"
  /\ ereq' = NoReq
  /\ proc' = NoProc
  /\ elapsed' = 0
  /\ eres' = NoRes
  /\ UNCHANGED <<storeVars, panelVars, resultVars, cliVars, codecVars, corrVars, sortVars, callVars, multiVars, blockVars, scriptVars, selectorVars, interVars>>

NextEngine ==
  \/ \E a \in AnalysisNames, timeout \in 1..MaxTimeout : Invoke(a, timeout)
  \/ \E code \in {0, 1}, out \in SampleTables : ProcExit(code, out)
  \/ WaitTick
  \/ WaitExit
  \/ WaitTimeout
  \/ InvokeDone

\* ------------------------------------------------------------------------
\* AnalysisPage.executeAnalysis / DesignPage.executeDesign
\* ------------------------------------------------------------------------
MaxClicks == 2      \* Run clicks accepted in one behaviour

DefaultTtl == 2     \* ttl given by issue_result_token (5 minutes), in ticks

RegistryKeys == {"descriptive", "correlation", "reliability"}
PageTypes == {"", "bogus"}

\* const analysisType = (type as AnalysisType) || 'descriptive'
AnalysisTypeOf(type) == IF type = "" THEN "descriptive" ELSE type

\* RunField disabled={running || !path || !sheet || selectedVars.length === 0}
\* (DesignPage: disabled={running || !canRun})
RunDisabled_Always(run, rdy) == ~rdy
RunDisabled(run, rdy) == run \/ ~rdy

\* finally { if (!closed) setRunning(false); }
FinallyRunning_Stuck(closed, run) == run
FinallyRunning(closed, run) == IF ~closed THEN FALSE ELSE run

\* the catch block reports the error; it never calls the engine again
RetryOnFailure_Timeout(kind) == kind = "timeout"
RetryOnFailure(kind) == FALSE

\* DesignPage validates the raw result with zParsedTable; AnalysisPage passes
\* it on as received
PanelAccepts_Unchecked(kind, t) == [success |-> TRUE, data |-> t]
PanelAccepts(kind, t) ==
  IF kind = "design" THEN ZParsedTableParse(t) ELSE [success |-> TRUE, data |-> t]

NoCalls == [engine |-> 0, issue |-> 0, open |-> 0, close |-> 0]

\* what run_r_analysis_with_dataset can answer
EngineOutcomes ==
  {[kind |-> "table", table |-> t] : t \in SampleTables} \cup
  {[kind |-> k, table |-> NoTable] : k \in {"timeout", "engine_failure", "decode_failure"}}

InitPanelVars ==
  /\ pkind \in {"analysis", "design"}
  /\ atype \in IF pkind = "analysis" THEN PageTypes ELSE {"design"}
  /\ ready = FALSE
  /\ running = FALSE
  /\ aerror = "null"
  /\ apc = "idle"
  /\ awin = "open"
  /\ aresult = NoTable
  /\ atoken = NoTok
  /\ pending = NoTok
  /\ runCalls = NoCalls
  /\ lastEngine = "none"
  /\ clicks = 0
  /\ engineCalls = 0
  /\ inflight = 0

\* catch (e) { setError(...) } finally { if (!closed) setRunning(false) }
Fail_Silent(msg) ==
  /\ aerror' = "null"
  /\ running' = FinallyRunning(FALSE, running)
  /\ apc' = "idle"
  /\ aresult' = NoTable
  /\ atoken' = NoTok
Fail(msg) ==
  /\ aerror' = msg
  /\ running' = FinallyRunning(FALSE, running)
  /\ apc' = "idle"
  /\ aresult' = NoTable
  /\ atoken' = NoTok

\* the user completes or clears the selection / the design inputs
SetReady(b) ==
  /\ awin = "open"
  /\ apc = "idle"
  /\ ready # b
  /\ ready' = b
  /\ UNCHANGED <<pkind, atype, running, aerror, apc, awin, aresult, atoken, pending,
                 runCalls, lastEngine, clicks, engineCalls, inflight>>
  /\ UNCHANGED <<storeVars, engineVars, resultVars, cliVars, codecVars, corrVars, sortVars, callVars, multiVars, blockVars, scriptVars, selectorVars, interVars>>

\* Run is clicked: executeAnalysis / executeDesign up to its first await
ClickRun ==
  /\ awin = "open"
  /\ clicks < MaxClicks
  /\ ~RunDisabled(running, ready)
  /\ ready
  /\ clicks' = clicks + 1
  /\ aerror' = "null"
  /\ running' = TRUE
  /\ lastEngine' = "none"
  /\ aresult' = NoTable
  /\ atoken' = NoTok
  /\ IF pkind = "analysis"
     THEN /\ apc' = "build"
          /\ runCalls' = NoCalls
          /\ UNCHANGED <<engineCalls, inflight>>
     ELSE /\ apc' = "run"
          /\ runCalls' = [NoCalls EXCEPT !.engine = 1]
          /\ engineCalls' = engineCalls + 1
          /\ inflight' = inflight + 1
  /\ UNCHANGED <<pkind, atype, ready, awin, pending>>
  /\ UNCHANGED <<storeVars, engineVars, resultVars, cliVars, codecVars, corrVars, sortVars, callVars, multiVars, blockVars, scriptVars, selectorVars, interVars>>

\* build_numeric_dataset answers; the registry lookup; the engine is called
BuildReturns(ok) ==
  /\ apc = "build"
  /\ IF ok /\ AnalysisTypeOf(atype) \in RegistryKeys
     THEN /\ apc' = "run"
          /\ runCalls' = [runCalls EXCEPT !.engine = @ + 1]
          /\ engineCalls' = engineCalls + 1
          /\ inflight' = inflight + 1
          /\ UNCHANGED <<aerror, running, aresult, atoken>>
     ELSE /\ Fail(IF ok THEN "unsupported" ELSE "build_failed")
          /\ UNCHANGED <<runCalls, engineCalls, inflight>>
  /\ UNCHANGED <<pkind, atype, ready, awin, pending, lastEngine, clicks>>
  /\ UNCHANGED <<storeVars, engineVars, resultVars, cliVars, codecVars, corrVars, sortVars, callVars, multiVars, blockVars, scriptVars, selectorVars, interVars>>

\* run_r_analysis_with_dataset answers
RunReturns(out) ==
  /\ apc = "run"
  /\ lastEngine' = out.kind
  /\ inflight' = IF out.kind # "table" /\ RetryOnFailure(out.kind) THEN inflight ELSE inflight - 1
  /\ IF out.kind = "table"
     THEN IF PanelAccepts(pkind, out.table).success
          THEN /\ aresult' = PanelAccepts(pkind, out.table).data
               /\ apc' = "issue"
               /\ runCalls' = [runCalls EXCEPT !.issue = @ + 1]
               /\ UNCHANGED <<aerror, running, atoken, engineCalls>>
          ELSE /\ Fail("schema")
               /\ UNCHANGED <<runCalls, engineCalls>>
     ELSE IF RetryOnFailure(out.kind)
          THEN /\ runCalls' = [runCalls EXCEPT !.engine = @ + 1]
               /\ engineCalls' = engineCalls + 1
               /\ UNCHANGED <<aerror, running, apc, aresult, atoken>>
          ELSE /\ Fail(out.kind)
               /\ UNCHANGED <<runCalls, engineCalls>>
  /\ UNCHANGED <<pkind, atype, ready, awin, pending, clicks>>
  /\ UNCHANGED <<storeVars, engineVars, resultVars, cliVars, codecVars, corrVars, sortVars, callVars, multiVars, blockVars, scriptVars, selectorVars, interVars>>

\* issue_result_token answers with a fresh token; the payload is backed up in
\* localStorage (best effort) and open_or_reuse_window is called
IssueReturns(ok, lsOk) ==
  /\ apc = "issue"
  /\ IF ok
     THEN /\ store' = StoreIssue(store, nextTok, aresult, now, DefaultTtl)
          /\ meta' = StoreIssue(meta, nextTok, aresult, now, DefaultTtl)
          /\ nextTok' = nextTok + 1
          /\ atoken' = nextTok
          /\ pending' = IF lsOk THEN nextTok ELSE pending
          /\ apc' = "open"
          /\ runCalls' = [runCalls EXCEPT !.open = @ + 1]
          /\ UNCHANGED <<aerror, running, aresult>>
     ELSE /\ lsOk
          /\ Fail("issue_failed")
          /\ UNCHANGED <<store, meta, nextTok, pending, runCalls>>
  /\ UNCHANGED <<pkind, atype, ready, awin, lastEngine, clicks, engineCalls, inflight>>
  /\ UNCHANGED <<now, lockHolder, cpc, ctok, cres, cinfo, okCount>>
  /\ UNCHANGED <<engineVars, resultVars, cliVars, codecVars, corrVars, sortVars, callVars, multiVars, blockVars, scriptVars, selectorVars, interVars>>

\* open_or_reuse_window answers: the result window exists and the payload
\* was emitted as 'result:load'; then await setTimeout(0)
OpenReturns(ok) ==
  /\ apc = "open"
  /\ IF ok
     THEN /\ rwin' = TRUE
          /\ evq' = evq \cup {atoken}
          /\ apc' = "timer"
          /\ UNCHANGED <<aerror, running, aresult, atoken>>
     ELSE /\ Fail("open_failed")
          /\ UNCHANGED <<rwin, evq>>
  /\ UNCHANGED <<pkind, atype, ready, awin, pending, runCalls, lastEngine, clicks, engineCalls, inflight>>
  /\ UNCHANGED <<rmounted, listening, entries, consumedTokens, cache, rerror,
                 hpc, htok, hcalls, delivered, consumeCalls>>
  /\ UNCHANGED <<storeVars, engineVars, cliVars, codecVars, corrVars, sortVars, callVars, multiVars, blockVars, scriptVars, selectorVars, interVars>>

\* the timer fires: getCurrentWebviewWindow().close() is called
TimerFires ==
  /\ apc = "timer"
  /\ apc' = "close"
  /\ runCalls' = [runCalls EXCEPT !.close = @ + 1]
  /\ UNCHANGED <<pkind, atype, ready, running, aerror, awin, aresult, atoken, pending,
                 lastEngine, clicks, engineCalls, inflight>>
  /\ UNCHANGED <<storeVars, engineVars, resultVars, cliVars, codecVars, corrVars, sortVars, callVars, multiVars, blockVars, scriptVars, selectorVars, interVars>>

\* close() answers: closed = true, or the catch block runs
CloseReturns(ok) ==
  /\ apc = "close"
  /\ IF ok
     THEN /\ awin' = "closed"
          /\ apc' = "closed"
          /\ running' = FinallyRunning(TRUE, running)
          /\ UNCHANGED <<aerror, aresult, atoken>>
     ELSE /\ Fail("close_failed")
          /\ UNCHANGED awin
  /\ UNCHANGED <<pkind, atype, ready, pending, runCalls, lastEngine, clicks, engineCalls, inflight>>
  /\ UNCHANGED <<storeVars, engineVars, resultVars, cliVars, codecVars, corrVars, sortVars, callVars, multiVars, blockVars, scriptVars, selectorVars, interVars>>

\* ------------------------------------------------------------------------
\* ResultPage.handlePayload and its two payload sources
\* ------------------------------------------------------------------------
Handlers == {1, 2}

InitResultVars ==
  /\ rwin = FALSE
  /\ rmounted = FALSE
  /\ listening = FALSE
  /\ evq = {}
  /\ entries = << >>
  /\ consumedTokens = {}
  /\ cache = << >>
  /\ rerror = "null"
  /\ hpc = [h \in Handlers |-> "idle"]
  /\ htok = [h \in Handlers |-> NoTok]
  /\ hcalls = [h \in Handlers |-> 0]
  /\ delivered = 0
  /\ consumeCalls = 0

\* sessionStorage.getItem(cacheKey) parsed and validated with zParsedTable
CacheHit(ch, tok) == tok \in DOMAIN ch /\ ZParsedTableParse(ch[tok]).success

CachePut(ch, tok, t) == [k \in (DOMAIN ch) \cup {tok} |-> IF k = tok THEN t ELSE ch[k]]

\* the entry appended for a token and its validated result
EntryOf(tok, t) == [id |-> tok, result |-> t]

\* what the backend's consume does to the store
ConsumeStore(st, tok, t) ==
  IF LookupOutcome(st, tok, t).outcome = "ok" THEN RemoveEntry(st, tok) ELSE st

\* handlePayload(p) up to its first await, run by activation h
HandleStart(h, tok) ==
  /\ hpc[h] = "idle"
  /\ delivered' = delivered + 1
  /\ IF tok = NoTok \/ tok \in consumedTokens
     THEN /\ UNCHANGED <<entries, consumedTokens, hpc, htok, hcalls, consumeCalls>>
     ELSE IF CacheHit(cache, tok)
     THEN /\ consumedTokens' = consumedTokens \cup {tok}
          /\ entries' = Append(entries, EntryOf(tok, ZParsedTableParse(cache[tok]).data))
          /\ hpc' = [hpc EXCEPT ![h] = "log"]
          /\ htok' = [htok EXCEPT ![h] = tok]
          /\ hcalls' = [hcalls EXCEPT ![h] = 0]
          /\ UNCHANGED consumeCalls
     ELSE /\ hpc' = [hpc EXCEPT ![h] = "consume"]
          /\ htok' = [htok EXCEPT ![h] = tok]
          /\ hcalls' = [hcalls EXCEPT ![h] = 1]
          /\ consumeCalls' = consumeCalls + 1
          /\ UNCHANGED <<entries, consumedTokens>>

\* mount effect: take the pending payload out of localStorage and handle it
RMount ==
  /\ rwin /\ ~rmounted
  /\ rmounted' = TRUE
  /\ IF pending # NoTok
     THEN /\ pending' = NoTok
          /\ \E h \in Handlers : HandleStart(h, pending)
     ELSE UNCHANGED <<pending, entries, consumedTokens, hpc, htok, hcalls, delivered, consumeCalls>>
  /\ UNCHANGED <<rwin, listening, evq, cache, rerror>>
  /\ UNCHANGED <<pkind, atype, ready, running, aerror, apc, awin, aresult, atoken,
                 runCalls, lastEngine, clicks, engineCalls, inflight>>
  /\ UNCHANGED <<storeVars, engineVars, cliVars, codecVars, corrVars, sortVars, callVars, multiVars, blockVars, scriptVars, selectorVars, interVars>>

\* win.listen('result:load', ...) resolves
RListen ==
  /\ rmounted /\ ~listening
  /\ listening' = TRUE
  /\ UNCHANGED <<rwin, rmounted, evq, entries, consumedTokens, cache, rerror,
                 hpc, htok, hcalls, delivered, consumeCalls>>
  /\ UNCHANGED <<storeVars, engineVars, panelVars, cliVars, codecVars, corrVars, sortVars, callVars, multiVars, blockVars, scriptVars, selectorVars, interVars>>

\* a 'result:load' event reaches the listener
DeliverEvent(tok, h) ==
  /\ listening
  /\ tok \in evq
  /\ evq' = evq \ {tok}
  /\ HandleStart(h, tok)
  /\ UNCHANGED <<rwin, rmounted, listening, cache, rerror>>
  /\ UNCHANGED <<storeVars, engineVars, panelVars, cliVars, codecVars, corrVars, sortVars, callVars, multiVars, blockVars, scriptVars, selectorVars, interVars>>

\* an event emitted before the listener was registered is lost
DropEvent(tok) ==
  /\ ~listening
  /\ tok \in evq
  /\ evq' = evq \ {tok}
  /\ UNCHANGED <<rwin, rmounted, listening, entries, consumedTokens, cache, rerror,
                 hpc, htok, hcalls, delivered, consumeCalls>>
  /\ UNCHANGED <<storeVars, engineVars, panelVars, cliVars, codecVars, corrVars, sortVars, callVars, multiVars, blockVars, scriptVars, selectorVars, interVars>>

\* consume_result_token answers; the result is validated, cached (best
\* effort) and appended, or the error is shown
ConsumeReturns(h, ssOk) ==
  /\ hpc[h] = "consume"
  /\ LET got == LookupOutcome(store, htok[h], now)
         parsed == ZParsedTableParse(got.result)
     IN /\ store' = ConsumeStore(store, htok[h], now)
        /\ IF got.outcome = "ok" /\ parsed.success
           THEN /\ cache' = IF ssOk THEN CachePut(cache, htok[h], parsed.data) ELSE cache
                /\ consumedTokens' = consumedTokens \cup {htok[h]}
                /\ entries' = Append(entries, EntryOf(htok[h], parsed.data))
                /\ hpc' = [hpc EXCEPT ![h] = "log"]
                /\ UNCHANGED <<rerror, htok>>
           ELSE /\ ssOk
                /\ rerror' = IF got.outcome = "ok" THEN "schema" ELSE got.outcome
                /\ hpc' = [hpc EXCEPT ![h] = "idle"]
                /\ htok' = [htok EXCEPT ![h] = NoTok]
                /\ UNCHANGED <<cache, consumedTokens, entries>>
  /\ UNCHANGED <<rwin, rmounted, listening, evq, hcalls, delivered, consumeCalls>>
  /\ UNCHANGED <<meta, now, nextTok, lockHolder, cpc, ctok, cres, cinfo, okCount>>
  /\ UNCHANGED <<engineVars, panelVars, cliVars, codecVars, corrVars, sortVars, callVars, multiVars, blockVars, scriptVars, selectorVars, interVars>>

\* append_analysis_log answers (a failure is ignored)
LogReturns(h) ==
  /\ hpc[h] = "log"
  /\ hpc' = [hpc EXCEPT ![h] = "idle"]
  /\ htok' = [htok EXCEPT ![h] = NoTok]
  /\ UNCHANGED <<rwin, rmounted, listening, evq, entries, consumedTokens, cache, rerror,
                 hcalls, delivered, consumeCalls>>
  /\ UNCHANGED <<storeVars, engineVars, panelVars, cliVars, codecVars, corrVars, sortVars, callVars, multiVars, blockVars, scriptVars, selectorVars, interVars>>

NextPanel ==
  \/ \E b \in BOOLEAN : SetReady(b)
  \/ ClickRun
  \/ \E ok \in BOOLEAN : BuildReturns(ok)
  \/ \E out \in EngineOutcomes : RunReturns(out)
  \/ \E ok \in BOOLEAN, lsOk \in BOOLEAN : IssueReturns(ok, lsOk)
  \/ \E ok \in BOOLEAN : OpenReturns(ok)
  \/ TimerFires
  \/ \E ok \in BOOLEAN : CloseReturns(ok)
  \/ RMount
  \/ RListen
  \/ \E tok \in evq, h \in Handlers : DeliverEvent(tok, h)
  \/ \E tok \in evq : DropEvent(tok)
  \/ \E h \in Handlers, ssOk \in BOOLEAN : ConsumeReturns(h, ssOk)
  \/ \E h \in Handlers : LogReturns(h)

\* ------------------------------------------------------------------------
\* cli.R: reading the input JSON and restoring the column order
\* ------------------------------------------------------------------------
MaxCols == 3        \* columns in the dataset / names in the hint

ColNames == {"a", "b", "c"}

\* duplicate-free sequences of column names, up to MaxCols long
RECURSIVE NameSeqs(_)
NameSeqs(n) ==
  IF n = 0 THEN {<< >>}
  ELSE NameSeqs(n - 1) \cup
       {Append(q, x) : q \in {r \in NameSeqs(n - 1) : Len(r) = n - 1},
                       x \in ColNames} 

DistinctSeq(q) == \A i \in 1..Len(q) : \A j \in 1..Len(q) : i # j => q[i] # q[j]

HintSeqs == {q \in NameSeqs(MaxCols) : DistinctSeq(q)}

\* the column of name x as carried in "__data": its values are tagged by name
ColumnOf(x) == [name |-> x, vals |-> <<x, "null">>]

Range(q) == {q[i] : i \in 1..Len(q)}

\* x[x %in% set], keeping order
RECURSIVE Keep(_, _)
Keep(q, set) ==
  IF q = << >> THEN << >>
  ELSE IF Head(q) \in set THEN <<Head(q)>> \o Keep(Tail(q), set)
  ELSE Keep(Tail(q), set)

ColNamesOf(d) == [i \in 1..Len(d) |-> d[i].name]

\* dat[, nm]: the first column carrying that name
ColumnNamed(d, nm) == d[CHOOSE i \in 1..Len(d) : d[i].name = nm /\ \A j \in 1..(i - 1) : d[j].name # nm]

\* cols <- colnames(dat); ord2 <- ord[ord %in% cols];
\* rest <- cols[!cols %in% ord2]; dat <- dat[, c(ord2, rest), drop = FALSE]
RestoreOrder_DropRest(d, hint) ==
  LET cols == ColNamesOf(d)
      ord2 == Keep(hint, Range(cols))
  IN [i \in 1..Len(ord2) |-> ColumnNamed(d, ord2[i])]
RestoreOrder(d, hint) ==
  LET cols == ColNamesOf(d)
      ord2 == Keep(hint, Range(cols))
      rest == Keep(cols, Range(cols) \ Range(ord2))
      sel == ord2 \o rest
  IN [i \in 1..Len(sel) |-> ColumnNamed(d, sel[i])]

NoOrd == [given |-> FALSE, names |-> << >>]

InitCliVars ==
  /\ cliPc = "start"
  /\ \E d \in HintSeqs, h \in HintSeqs, hasOrder \in BOOLEAN :
       rawObj = [data |-> [i \in 1..Len(d) |-> ColumnOf(d[i])],
                 hasOrder |-> hasOrder,
                 order |-> IF hasOrder THEN h ELSE << >>]
  /\ dat = << >>
  /\ ord = NoOrd

IdleCliVars ==
  /\ cliPc = "start"
  /\ rawObj = [data |-> << >>, hasOrder |-> FALSE, order |-> << >>]
  /\ dat = << >>
  /\ ord = NoOrd

\* raw_obj is read; dat <- raw_obj[["__data"]] as a data frame in JSON order,
\* ord <- as.character(raw_obj[["__order"]]) when present
CliRead ==
  /\ cliPc = "start"
  /\ dat' = rawObj.data
  /\ ord' = IF rawObj.hasOrder THEN [given |-> TRUE, names |-> rawObj.order] ELSE NoOrd
  /\ cliPc' = "read"
  /\ UNCHANGED rawObj
  /\ UNCHANGED <<storeVars, engineVars, panelVars, resultVars, codecVars, corrVars, sortVars, callVars, multiVars, blockVars, scriptVars, selectorVars, interVars>>

\* if (!is.null(ord) && is.data.frame(dat)) reorder
CliRestore ==
  /\ cliPc = "read"
  /\ dat' = IF ord.given THEN RestoreOrder(dat, ord.names) ELSE dat
  /\ cliPc' = "restored"
  /\ UNCHANGED <<rawObj, ord>>
  /\ UNCHANGED <<storeVars, engineVars, panelVars, resultVars, codecVars, corrVars, sortVars, callVars, multiVars, blockVars, scriptVars, selectorVars, interVars>>

NextCli ==
  \/ CliRead
  \/ CliRestore

\* ------------------------------------------------------------------------
\* Value codec: utils.R encoders, jsonlite::toJSON, zCellValue
\* ------------------------------------------------------------------------
MaxMag == 15        \* finite inputs range over -MaxMag..MaxMag ten-thousandths

\* R values: NA, NaN, Inf, -Inf, a finite number (v ten-thousandths, neg set
\* for a negative zero), a character string, or undefined on the JS side
RNa == [k |-> "NA", s |-> "", v |-> 0, neg |-> FALSE]
RNaN == [k |-> "NaN", s |-> "", v |-> 0, neg |-> FALSE]
RInf == [k |-> "Inf", s |-> "", v |-> 0, neg |-> FALSE]
RNegInf == [k |-> "-Inf", s |-> "", v |-> 0, neg |-> FALSE]
RNum(n) == [k |-> "num", s |-> "", v |-> n, neg |-> n < 0]
RNegZero == [k |-> "num", s |-> "", v |-> 0, neg |-> TRUE]
RStr(t) == [k |-> "str", s |-> t, v |-> 0, neg |-> FALSE]

\* base::is.na is TRUE for NA and for NaN; base::is.nan only for NaN
RIsNa(x) == x.k \in {"NA", "NaN"}
RIsNaN(x) == x.k = "NaN"
RIsFinite(x) == x.k = "num"

Abs(n) == IF n < 0 THEN -n ELSE n

Pow10(d) == IF d = 0 THEN 1 ELSE IF d = 1 THEN 10 ELSE IF d = 2 THEN 100 ELSE IF d = 3 THEN 1000 ELSE 10000

\* sign(x) * floor(abs(x) * 10^digits + 0.5) / 10^digits for digits <= 4:
\* the magnitude t in units of 10^-digits and the sign (kept for a zero)
RoundHalfUp_Truncate(x, digits) ==
  [t |-> Abs(x.v) \div Pow10(4 - digits), neg |-> x.neg]
RoundHalfUp(x, digits) ==
  LET u == Pow10(4 - digits)
  IN [t |-> (2 * Abs(x.v) + u) \div (2 * u), neg |-> x.neg]

\* .RoundHalfUp(xv, digits = 3L)
RoundHalfUp3(x) == RoundHalfUp(x, 3)

Pad3(n) ==
  IF n < 10 THEN "00" \o ToString(n)
  ELSE IF n < 100 THEN "0" \o ToString(n)
  ELSE ToString(n)

\* sprintf("%.3f", v): the sign is printed for a negative zero too
Sprintf3(r) ==
  (IF r.neg THEN "-" ELSE "") \o ToString(r.t \div 1000) \o "." \o Pad3(r.t % 1000)

FormatNum(x) ==
  IF RIsNa(x) THEN RNa
  ELSE IF RIsNaN(x) THEN RStr("NaN!")
  ELSE IF ~RIsFinite(x) THEN (IF x.k = "Inf" THEN RStr("Inf!") ELSE RStr("-Inf!"))
  ELSE RStr(Sprintf3(RoundHalfUp3(x)))

\* as.character(as.integer(.RoundHalfUp(xv, digits = 0L)))
FormatDf(x) ==
  IF RIsNa(x) \/ ~RIsFinite(x) THEN RNa
  ELSE LET r == RoundHalfUp(x, 0)
       IN RStr((IF r.neg /\ r.t > 0 THEN "-" ELSE "") \o ToString(r.t))

ReplaceSpecialNum(x) ==
  IF RIsNa(x) THEN x
  ELSE IF RIsNaN(x) THEN RStr("NaN!")
  ELSE IF ~RIsFinite(x) THEN (IF x.k = "Inf" THEN RStr("Inf!") ELSE RStr("-Inf!"))
  ELSE x

\* jsonlite::toJSON(out, auto_unbox = TRUE, na = "null"): NA, NaN and the
\* infinities are written as null, strings as strings, numbers of up to four
\* decimals as numbers
ToJSON(x) ==
  IF x.k = "str" THEN WStr(x.s)
  ELSE IF x.k = "num" THEN WNum(x.v)
  ELSE WNull

FormatPval_NoFloor(x) ==
  IF RIsNa(x) \/ ~RIsFinite(x) THEN RNa
  ELSE RStr(Sprintf3(RoundHalfUp3(x)))
FormatPval(x) ==
  IF RIsNa(x) \/ ~RIsFinite(x) THEN RNa
  ELSE LET pr == RoundHalfUp3(x)
       IN IF x.v > 0 /\ pr.t = 0 THEN RStr("<.001") ELSE RStr(Sprintf3(pr))

StarsForPval_Inclusive(x) ==
  IF RIsNa(x) THEN ""
  ELSE IF ~RIsFinite(x) THEN ""
  ELSE IF x.v <= 10 THEN "***"
  ELSE IF x.v <= 100 THEN "**"
  ELSE IF x.v <= 500 THEN "*"
  ELSE ""
StarsForPval(x) ==
  IF RIsNa(x) THEN ""
  ELSE IF ~RIsFinite(x) THEN ""
  ELSE IF x.v < 10 THEN "***"
  ELSE IF x.v < 100 THEN "**"
  ELSE IF x.v < 500 THEN "*"
  ELSE ""

CodecInputs == {RNa, RNaN, RInf, RNegInf, RNegZero} \cup {RNum(n) : n \in (-MaxMag)..MaxMag}
                 \cup {RNum(12345), RNum(-9995)}
                 \cup {RNum(n) : n \in {50, 99, 100, 400, 499, 500, 625, 4994, 4995, 9995, 10000}}
                 \cup {RNum(n) : n \in {15000, 25000, -4999, -5000, -25000}}

ForeignCells == {WStr("x"), WStr("NaN!"), WStr(""), WNum(0), WNum(7), WBool(TRUE), WBool(FALSE), WNull, WUndef}

IdleCodecVars ==
  /\ codecPc = "idle"
  /\ cval = RNa
  /\ rval = RNa
  /\ wire = WNull
  /\ decoded = WNull

\* either an R value is about to be encoded, or a cell arrives from elsewhere
InitCodecVars ==
  /\ rval = RNa
  /\ decoded = WNull
  /\ \/ codecPc = "start" /\ cval \in CodecInputs /\ wire = WNull
     \/ codecPc = "wire" /\ cval = RNa /\ wire \in ForeignCells

EncodeFormatNum ==
  /\ codecPc = "start"
  /\ rval' = FormatNum(cval)
  /\ codecPc' = "encoded"
  /\ UNCHANGED <<cval, wire, decoded>>
  /\ UNCHANGED <<storeVars, engineVars, panelVars, resultVars, cliVars, corrVars, sortVars, callVars, multiVars, blockVars, scriptVars, selectorVars, interVars>>

EncodeReplaceSpecialNum ==
  /\ codecPc = "start"
  /\ rval' = ReplaceSpecialNum(cval)
  /\ codecPc' = "encoded"
  /\ UNCHANGED <<cval, wire, decoded>>
  /\ UNCHANGED <<storeVars, engineVars, panelVars, resultVars, cliVars, corrVars, sortVars, callVars, multiVars, blockVars, scriptVars, selectorVars, interVars>>

EncodeFormatPval ==
  /\ codecPc = "start"
  /\ rval' = FormatPval(cval)
  /\ codecPc' = "encoded"
  /\ UNCHANGED <<cval, wire, decoded>>
  /\ UNCHANGED <<storeVars, engineVars, panelVars, resultVars, cliVars, corrVars, sortVars, callVars, multiVars, blockVars, scriptVars, selectorVars, interVars>>

EncodeFormatDf ==
  /\ codecPc = "start"
  /\ rval' = FormatDf(cval)
  /\ codecPc' = "encoded"
  /\ UNCHANGED <<cval, wire, decoded>>
  /\ UNCHANGED <<storeVars, engineVars, panelVars, resultVars, cliVars, corrVars, sortVars, callVars, multiVars, blockVars, scriptVars, selectorVars, interVars>>

EncodeStars ==
  /\ codecPc = "start"
  /\ rval' = RStr(StarsForPval(cval))
  /\ codecPc' = "encoded"
  /\ UNCHANGED <<cval, wire, decoded>>
  /\ UNCHANGED <<storeVars, engineVars, panelVars, resultVars, cliVars, corrVars, sortVars, callVars, multiVars, blockVars, scriptVars, selectorVars, interVars>>

WriteJson ==
  /\ codecPc = "encoded"
  /\ wire' = ToJSON(rval)
  /\ codecPc' = "written"
  /\ UNCHANGED <<cval, rval, decoded>>
  /\ UNCHANGED <<storeVars, engineVars, panelVars, resultVars, cliVars, corrVars, sortVars, callVars, multiVars, blockVars, scriptVars, selectorVars, interVars>>

DecodeCell ==
  /\ codecPc \in {"written", "wire"}
  /\ ZCellAccepts(wire)
  /\ decoded' = ZCellValue(wire)
  /\ codecPc' = IF codecPc = "written" THEN "decoded" ELSE "decodedForeign"
  /\ UNCHANGED <<cval, rval, wire>>
  /\ UNCHANGED <<storeVars, engineVars, panelVars, resultVars, cliVars, corrVars, sortVars, callVars, multiVars, blockVars, scriptVars, selectorVars, interVars>>

NextCodec ==
  \/ EncodeFormatNum
  \/ EncodeReplaceSpecialNum
  \/ EncodeFormatPval
  \/ EncodeFormatDf
  \/ EncodeStars
  \/ WriteJson
  \/ DecodeCell

\* ------------------------------------------------------------------------
\* correlation.R: .CorrTest's p-values and the .CorrParsed table
\* ------------------------------------------------------------------------
MaxVars == 2        \* variables in the correlation matrix

Alternatives == {"two.sided", "greater", "less"}

UsePolicies == {"all.obs", "complete.obs", "pairwise.complete.obs"}

\* a missing cell of the numeric dataset (null in "__data")
NaCell == 0

NRows == 3          \* rows of the sample dataset

\* columns of the numeric dataset: whole numbers, NaCell where missing
SampleColumns ==
  {<<1, 2, 3>>, <<2, 4, 6>>, <<3, 2, 1>>, <<1, 3, 2>>, <<2, 2, 2>>,
   <<1, NaCell, 3>>, <<NaCell, NaCell, 3>>, <<NaCell, NaCell, NaCell>>}

\* tail probabilities stats::pt may give for a finite t (ten-thousandths)
PtValues == <<4, 50, 400, 5000>>

Pairs(n) == {ij \in (1..n) \X (1..n) : ij[1] < ij[2]}

Cells(n) == (1..n) \X (1..n)

VarName(i) == "v" \o ToString(i)

RECURSIVE SumOver(_, _)
SumOver(S, f) ==
  IF S = {} THEN 0
  ELSE LET k == CHOOSE k \in S : TRUE IN f[k] + SumOver(S \ {k}, f)

\* m <- !is.na(x_work)
Present(x, i) == {k \in 1..NRows : x[i][k] # NaCell}

CompleteCases(x) == {k \in 1..NRows : \A i \in 1..Len(x) : x[i][k] # NaCell}

\* the rows stats::cor uses for the pair (i, j) under the policy
UsableRows(x, use, i, j) ==
  IF use = "pairwise.complete.obs" THEN Present(x, i) \cap Present(x, j)
  ELSE IF use = "complete.obs" THEN CompleteCases(x)
  ELSE 1..NRows

\* stats::cor stops: missing observations under all.obs, no complete case
\* under complete.obs
CorFails(x, use) ==
  \/ use = "all.obs" /\ \E i \in 1..Len(x) : Present(x, i) # 1..NRows
  \/ use = "complete.obs" /\ CompleteCases(x) = {}

\* floor(10^digits * num / den) for 0 <= num <= den, by long division
RECURSIVE LongDiv(_, _, _, _)
LongDiv(q, rem, den, digits) ==
  IF digits = 0 THEN q
  ELSE LongDiv(q * 10 + (rem * 10) \div den, (rem * 10) % den, den, digits - 1)

\* floor(sqrt(x)) in lo..hi
RECURSIVE ISqrt(_, _, _)
ISqrt(lo, hi, x) ==
  IF lo = hi THEN lo
  ELSE LET mid == (lo + hi + 1) \div 2
       IN IF mid * mid <= x THEN ISqrt(mid, hi, x) ELSE ISqrt(lo, mid - 1, x)

\* Pearson's r of columns i and j over the rows S, in ten-thousandths
\* (truncated); NA with fewer than two rows or a constant column
Pearson(x, i, j, S) ==
  LET c == Cardinality(S)
      sx == SumOver(S, [k \in S |-> x[i][k]])
      sy == SumOver(S, [k \in S |-> x[j][k]])
      sxx == c * SumOver(S, [k \in S |-> x[i][k] * x[i][k]]) - sx * sx
      syy == c * SumOver(S, [k \in S |-> x[j][k] * x[j][k]]) - sy * sy
      sxy == c * SumOver(S, [k \in S |-> x[i][k] * x[j][k]]) - sx * sy
  IN IF c < 2 \/ sxx = 0 \/ syy = 0 THEN RNa
     ELSE IF sxy * sxy = sxx * syy THEN (IF sxy > 0 THEN RNum(10000) ELSE RNum(-10000))
     ELSE LET mag == ISqrt(0, 10000, LongDiv(0, sxy * sxy, sxx * syy, 8))
          IN IF sxy < 0 THEN RNum(-mag) ELSE RNum(mag)

\* n_mtx by policy; the diagonal under pairwise is the column's own count
NOf_RowComplete(x, use, i, j) ==
  IF use = "all.obs" THEN NRows
  ELSE Cardinality(CompleteCases(x))
NOf(x, use, i, j) ==
  IF use = "all.obs" THEN NRows
  ELSE IF use = "complete.obs" THEN Cardinality(CompleteCases(x))
  ELSE IF i = j THEN Cardinality(Present(x, i))
  ELSE Cardinality(Present(x, i) \cap Present(x, j))

\* df <- if (!is.na(n) && n >= 3) n - 2 else NA
DfOf(pr) == IF pr.n >= 3 THEN RNum(pr.n - 2) ELSE RNa

\* t_val: NA, finite (only its sign is kept: that of r), or sign(r) * Inf
\* when abs(r) = 1
TValOf(pr) ==
  IF ~RIsNa(pr.r) /\ pr.n >= 3 /\ RIsFinite(pr.r)
  THEN IF Abs(pr.r.v) < 10000 THEN RNum(pr.r.v)
       ELSE IF pr.r.v > 0 THEN RInf ELSE RNegInf
  ELSE RNa

PvalueFromTValue_OneSide(t, df, alt, pt) ==
  IF RIsNa(t) \/ RIsNa(df) THEN RNa
  ELSE IF ~RIsFinite(t)
       THEN IF alt = "two.sided" THEN RNum(0)
            ELSE (IF t.k = "Inf" THEN RNum(0) ELSE RNum(10000))
  ELSE RNum(pt)
PvalueFromTValue(t, df, alt, pt) ==
  IF RIsNa(t) \/ RIsNa(df) THEN RNa
  ELSE IF ~RIsFinite(t)
       THEN IF alt = "two.sided" THEN RNum(0)
            ELSE IF alt = "greater" THEN (IF t.k = "Inf" THEN RNum(0) ELSE RNum(10000))
            ELSE (IF t.k = "-Inf" THEN RNum(0) ELSE RNum(10000))
  ELSE RNum(pt)

\* what stats::pt gives for the pair: drawn from PtValues by the seed
PtOf(seed, i, j) == PtValues[((seed + i + j) % Len(PtValues)) + 1]

Methods == {"pearson", "spearman", "kendall"}

\* twice the average rank of row k of column i among the rows S
Rank2(x, i, S, k) ==
  2 * Cardinality({m \in S : x[i][m] < x[i][k]}) + Cardinality({m \in S : x[i][m] = x[i][k]}) + 1

\* Spearman's rho: Pearson's r of the ranks
Spearman(x, i, j, S) ==
  Pearson(<<[k \in 1..NRows |-> IF k \in S THEN Rank2(x, i, S, k) ELSE 0],
            [k \in 1..NRows |-> IF k \in S THEN Rank2(x, j, S, k) ELSE 0]>>, 1, 2, S)

Sign(a) == IF a > 0 THEN 1 ELSE IF a < 0 THEN -1 ELSE 0

\* Kendall's tau-b, in ten-thousandths (truncated); NA with fewer than two
\* rows or a constant column
Kendall(x, i, j, S) ==
  LET prs == {km \in S \X S : km[1] < km[2]}
      num == SumOver(prs, [km \in prs |-> Sign(x[i][km[1]] - x[i][km[2]]) * Sign(x[j][km[1]] - x[j][km[2]])])
      tx == Cardinality({km \in prs : x[i][km[1]] # x[i][km[2]]})
      ty == Cardinality({km \in prs : x[j][km[1]] # x[j][km[2]]})
  IN IF Cardinality(S) < 2 \/ tx = 0 \/ ty = 0 THEN RNa
     ELSE IF num * num = tx * ty THEN (IF num > 0 THEN RNum(10000) ELSE RNum(-10000))
     ELSE LET mag == ISqrt(0, 10000, LongDiv(0, num * num, tx * ty, 8))
          IN IF num < 0 THEN RNum(-mag) ELSE RNum(mag)

\* stats::cor(method = method) for the pair (i, j) over the rows S
CorOf(method, x, i, j, S) ==
  IF method = "spearman" THEN Spearman(x, i, j, S)
  ELSE IF method = "kendall" THEN Kendall(x, i, j, S)
  ELSE Pearson(x, i, j, S)

\* the result list of .CorrTest: corr, p, t, df and n matrices
CorrTestResultBy(in, method) ==
  LET x == in.x
      n == Len(x)
      lo(ij) == IF ij[1] < ij[2] THEN ij[1] ELSE ij[2]
      hi(ij) == IF ij[1] < ij[2] THEN ij[2] ELSE ij[1]
      cor == [ij \in Cells(n) |-> CorOf(method, x, ij[1], ij[2], UsableRows(x, in.use, ij[1], ij[2]))]
      nm == [ij \in Cells(n) |-> NOf(x, in.use, ij[1], ij[2])]
      pr(ij) == [r |-> cor[<<lo(ij), hi(ij)>>], n |-> nm[<<lo(ij), hi(ij)>>]]
  IN [corr |-> [ij \in Cells(n) |-> IF ij[1] = ij[2] THEN RNum(10000) ELSE cor[ij]],
      n |-> nm,
      df |-> [ij \in Cells(n) |-> IF ij[1] = ij[2] THEN RNa ELSE DfOf(pr(ij))],
      t |-> [ij \in Cells(n) |-> IF ij[1] = ij[2] THEN RNa ELSE TValOf(pr(ij))],
      p |-> [ij \in Cells(n) |->
               IF ij[1] = ij[2] THEN RNa
               ELSE PvalueFromTValue(TValOf(pr(ij)), DfOf(pr(ij)), in.alt,
                                     PtOf(in.seed, lo(ij), hi(ij)))]]

\* .CorrTest with its default method
CorrTestResult(in) == CorrTestResultBy(in, "pearson")

\* the correlation cell of .CorrParsed for j > i
CorrCell(r, pv) ==
  IF RIsNa(r) THEN FormatNum(RNum(10000))
  ELSE RStr(FormatNum(r).s \o StarsForPval(pv))

\* the p-value cell for j > i: .CorrParsed, and the older CorrParsed
PvalCell(pv) == FormatPval(pv)

PvalCellLegacy(pv) ==
  IF RIsNa(pv) THEN RStr("NULL")
  ELSE LET pr == RoundHalfUp3(pv)
       IN IF pv.v > 0 /\ pr.t = 0 THEN RStr("<.001") ELSE RStr(Sprintf3(pr))

CorrRow_Full(res, n, i) ==
  <<WStr(VarName(i))>> \o
  [j \in 1..n |->
     IF j = i THEN ToJSON(FormatNum(RNum(10000)))
     ELSE ToJSON(CorrCell(res.corr[<<i, j>>], res.p[<<i, j>>]))]
CorrRow(res, n, i) ==
  <<WStr(VarName(i))>> \o
  [j \in 1..n |->
     IF j < i THEN WStr("")
     ELSE IF j = i THEN ToJSON(FormatNum(RNum(10000)))
     ELSE ToJSON(CorrCell(res.corr[<<i, j>>], res.p[<<i, j>>]))]

PvalRow(res, n, i, legacy) ==
  <<WStr(VarName(i))>> \o
  [j \in 1..n |->
     IF j < i THEN WStr("")
     ELSE IF j = i THEN WStr("-")
     ELSE ToJSON(IF legacy THEN PvalCellLegacy(res.p[<<i, j>>]) ELSE PvalCell(res.p[<<i, j>>]))]

SepRow(n) == <<WStr("p-value")>> \o [j \in 1..n |-> WStr("")]

CorrParsedTable(res, n, legacy) ==
  [headers |-> <<"Variable">> \o [i \in 1..n |-> VarName(i)],
   rows |-> [i \in 1..n |-> CorrRow(res, n, i)] \o <<SepRow(n)>> \o
            [i \in 1..n |-> PvalRow(res, n, i, legacy)]]

NoCorrRes == [corr |-> << >>, n |-> << >>, df |-> << >>, t |-> << >>, p |-> << >>]

NoCorrIn == [n |-> 0, alt |-> "two.sided", use |-> "all.obs", seed |-> 0, x |-> << >>]

IdleCorrVars ==
  /\ corrPc = "idle"
  /\ corrIn = NoCorrIn
  /\ corrRes = NoCorrRes
  /\ corrOut = NoTable

InitCorrVars ==
  /\ corrPc = "start"
  /\ \E n \in 2..MaxVars, alt \in Alternatives, use \in UsePolicies,
        seed \in 0..(Len(PtValues) - 1) :
       \E x \in [1..n -> SampleColumns] :
         corrIn = [n |-> n, alt |-> alt, use |-> use, seed |-> seed, x |-> x]
  /\ corrRes = NoCorrRes
  /\ corrOut = NoTable

CorrTest ==
  /\ corrPc = "start"
  /\ ~CorFails(corrIn.x, corrIn.use)
  /\ corrRes' = CorrTestResult(corrIn)
  /\ corrPc' = "tested"
  /\ UNCHANGED <<corrIn, corrOut>>
  /\ UNCHANGED <<storeVars, engineVars, panelVars, resultVars, cliVars, codecVars, sortVars, callVars, multiVars, blockVars, scriptVars, selectorVars, interVars>>

\* stats::cor stops with an error and no table is produced
CorrTestFails ==
  /\ corrPc = "start"
  /\ CorFails(corrIn.x, corrIn.use)
  /\ corrPc' = "failed"
  /\ UNCHANGED <<corrIn, corrRes, corrOut>>
  /\ UNCHANGED <<storeVars, engineVars, panelVars, resultVars, cliVars, codecVars, sortVars, callVars, multiVars, blockVars, scriptVars, selectorVars, interVars>>

CorrParsed ==
  /\ corrPc = "tested"
  /\ corrOut' = CorrParsedTable(corrRes, corrIn.n, FALSE)
  /\ corrPc' = "parsed"
  /\ UNCHANGED <<corrIn, corrRes>>
  /\ UNCHANGED <<storeVars, engineVars, panelVars, resultVars, cliVars, codecVars, sortVars, callVars, multiVars, blockVars, scriptVars, selectorVars, interVars>>

CorrParsedLegacy ==
  /\ corrPc = "tested"
  /\ corrOut' = CorrParsedTable(corrRes, corrIn.n, TRUE)
  /\ corrPc' = "parsedLegacy"
  /\ UNCHANGED <<corrIn, corrRes>>
  /\ UNCHANGED <<storeVars, engineVars, panelVars, resultVars, cliVars, codecVars, sortVars, callVars, multiVars, blockVars, scriptVars, selectorVars, interVars>>

NextCorr ==
  \/ CorrTest
  \/ CorrTestFails
  \/ CorrParsed
  \/ CorrParsedLegacy

\* ------------------------------------------------------------------------
\* RunCorrelation over several methods, and CorrelationTables.tsx
\* ------------------------------------------------------------------------
\* startsWith
StartsWith(str, prefix) == Len(str) >= Len(prefix) /\ SubSeq(str, 1, Len(prefix)) = prefix

MaxMethods == 2     \* methods requested in one call

\* columns on which the three methods give different coefficients
MultiColumns == {<<1, 2, 4>>, <<1, 3, 2>>, <<2, 2, 2>>, <<1, NaCell, 3>>}

RECURSIVE SeqsUpTo(_, _)
SeqsUpTo(S, n) ==
  IF n = 0 THEN {<< >>}
  ELSE SeqsUpTo(S, n - 1) \cup {Append(q, e) : q \in {r \in SeqsUpTo(S, n - 1) : Len(r) = n - 1}, e \in S}

\* methods: NULL or empty -> "pearson"
MethodsOf(in) == IF in.methods = << >> THEN <<"pearson">> ELSE in.methods

\* alt: NULL or empty -> two.sided, one.sided -> greater, unknown -> two.sided
AltOf(in) ==
  LET a == IF in.alt = "" THEN "two.sided" ELSE in.alt
      r == IF a = "one.sided" THEN "greater" ELSE a
  IN IF r \in Alternatives THEN r ELSE "two.sided"

\* use: NULL, empty or unknown -> all.obs
UseOf(in) == IF in.use \in UsePolicies THEN in.use ELSE "all.obs"

\* the arguments .CorrParsed hands to .CorrTest
CorrArgs(in) == [n |-> Len(in.x), alt |-> AltOf(in), use |-> UseOf(in), seed |-> in.seed, x |-> in.x]

\* .CorrParsed for one method
CorrParsedBy(in, m) == CorrParsedTable(CorrTestResultBy(CorrArgs(in), m), Len(in.x), FALSE)

\* stats::cor stops for a method it does not know and for missing data
\* the policy does not allow
RunCorrelationFails(in) ==
  \/ \E i \in 1..Len(MethodsOf(in)) : MethodsOf(in)[i] \notin Methods
  \/ CorFails(in.x, UseOf(in))

SectionMarker_Short(m, width) == <<WStr("--- " \o m \o " ---")>>
SectionMarker(m, width) == <<WStr("--- " \o m \o " ---")>> \o [j \in 1..(width - 1) |-> WStr("")]

\* the loop of RunCorrelation from method i on; headers << >> is NULL
RECURSIVE RunCorrelationLoop_MarkAll(_, _, _, _)
RunCorrelationLoop_MarkAll(in, i, headers, rowsAll) ==
  IF i > Len(MethodsOf(in)) THEN [headers |-> headers, rows |-> rowsAll]
  ELSE LET m == MethodsOf(in)[i]
           res == CorrParsedBy(in, m)
           h == IF headers = << >> THEN res.headers ELSE headers
       IN RunCorrelationLoop_MarkAll(in, i + 1, h, rowsAll \o <<SectionMarker(m, Len(h))>> \o res.rows)
RECURSIVE RunCorrelationLoop(_, _, _, _)
RunCorrelationLoop(in, i, headers, rowsAll) ==
  IF i > Len(MethodsOf(in)) THEN [headers |-> headers, rows |-> rowsAll]
  ELSE LET m == MethodsOf(in)[i]
           res == CorrParsedBy(in, m)
           h == IF headers = << >> THEN res.headers ELSE headers
           withSep == IF i > 1 THEN rowsAll \o <<SectionMarker(m, Len(h))>> ELSE rowsAll
       IN RunCorrelationLoop(in, i + 1, h, withSep \o res.rows)

RunCorrelation(in) == RunCorrelationLoop(in, 1, << >>, << >>)

\* /^---\s.*\s---$/ on a string cell
IsSectionLabel(c) ==
  /\ c.k = "str"
  /\ Len(c.s) >= 8
  /\ SubSeq(c.s, 1, 4) = "--- "
  /\ SubSeq(c.s, Len(c.s) - 3, Len(c.s)) = " ---"

RECURSIVE DropLeadingSpaces(_)
DropLeadingSpaces(str) ==
  IF Len(str) > 0 /\ SubSeq(str, 1, 1) = " " THEN DropLeadingSpaces(SubSeq(str, 2, Len(str))) ELSE str

RECURSIVE DropTrailingSpaces(_)
DropTrailingSpaces(str) ==
  IF Len(str) > 0 /\ SubSeq(str, Len(str), Len(str)) = " "
  THEN DropTrailingSpaces(SubSeq(str, 1, Len(str) - 1)) ELSE str

\* s.replace(/^---\s*/, '').replace(/\s*---$/, '')
NormalizeTitle(str) ==
  LET a == IF StartsWith(str, "---") THEN DropLeadingSpaces(SubSeq(str, 4, Len(str))) ELSE str
  IN IF Len(a) >= 3 /\ SubSeq(a, Len(a) - 2, Len(a)) = "---"
     THEN DropTrailingSpaces(SubSeq(a, 1, Len(a) - 3)) ELSE a

\* v == null ? '' : String(v), for string and null cells
CellText(c) == IF c.k = "str" THEN c.s ELSE ""

RowText(r) == [j \in 1..Len(r) |-> CellText(r[j])]

NoTitle == "null"

\* the scan of CorrelationTables: the sections closed so far, the open one,
\* and whether the p-value separator was passed
RECURSIVE CorrelationSections(_, _, _, _, _)
CorrelationSections(rows, i, out, cur, inP) ==
  LET flush == IF cur.corr # << >> \/ cur.p # << >> THEN Append(out, cur) ELSE out
  IN IF i > Len(rows) THEN flush
     ELSE IF Len(rows[i]) > 0 /\ IsSectionLabel(rows[i][1])
     THEN CorrelationSections(rows, i + 1, flush,
                              [title |-> NormalizeTitle(rows[i][1].s), corr |-> << >>, p |-> << >>], FALSE)
     ELSE IF Len(rows[i]) > 0 /\ CellText(rows[i][1]) = "p-value" /\ rows[i][1].k = "str"
     THEN CorrelationSections(rows, i + 1, out, cur, TRUE)
     ELSE IF ~inP
     THEN CorrelationSections(rows, i + 1, out, [cur EXCEPT !.corr = Append(@, RowText(rows[i]))], inP)
     ELSE CorrelationSections(rows, i + 1, out, [cur EXCEPT !.p = Append(@, RowText(rows[i]))], inP)

CorrelationTables(data) ==
  IF data.rows = << >> THEN << >>
  ELSE CorrelationSections(data.rows, 1, << >>, [title |-> NoTitle, corr |-> << >>, p |-> << >>], FALSE)

NoMultiIn == [methods |-> << >>, alt |-> "", use |-> "", seed |-> 0, x |-> << >>]

IdleMultiVars ==
  /\ mcPc = "idle"
  /\ mcIn = NoMultiIn
  /\ mcOut = NoTable
  /\ mcView = << >>

InitMultiVars ==
  /\ mcPc = "start"
  /\ \E ms \in SeqsUpTo(Methods \cup {"bogus"}, MaxMethods),
        alt \in {"", "one.sided", "bogus"},
        use \in {"", "complete.obs", "pairwise.complete.obs"},
        seed \in 0..1 :
       \E x \in [1..2 -> MultiColumns] :
         mcIn = [methods |-> ms, alt |-> alt, use |-> use, seed |-> seed, x |-> x]
  /\ mcOut = NoTable
  /\ mcView = << >>

CallRunCorrelation ==
  /\ mcPc = "start"
  /\ ~RunCorrelationFails(mcIn)
  /\ mcOut' = RunCorrelation(mcIn)
  /\ mcPc' = "returned"
  /\ UNCHANGED <<mcIn, mcView>>
  /\ UNCHANGED <<storeVars, engineVars, panelVars, resultVars, cliVars, codecVars, corrVars, sortVars, callVars, blockVars, scriptVars, selectorVars, interVars>>

CallRunCorrelationStops ==
  /\ mcPc = "start"
  /\ RunCorrelationFails(mcIn)
  /\ mcPc' = "stopped"
  /\ UNCHANGED <<mcIn, mcOut, mcView>>
  /\ UNCHANGED <<storeVars, engineVars, panelVars, resultVars, cliVars, codecVars, corrVars, sortVars, callVars, blockVars, scriptVars, selectorVars, interVars>>

RenderCorrelationTables ==
  /\ mcPc = "returned"
  /\ mcView' = CorrelationTables(mcOut)
  /\ mcPc' = "viewed"
  /\ UNCHANGED <<mcIn, mcOut>>
  /\ UNCHANGED <<storeVars, engineVars, panelVars, resultVars, cliVars, codecVars, corrVars, sortVars, callVars, blockVars, scriptVars, selectorVars, interVars>>

NextMulti ==
  \/ CallRunCorrelation
  \/ CallRunCorrelationStops
  \/ RenderCorrelationTables

\* ------------------------------------------------------------------------
\* regression.R: .LinearRegressionParsed, and MultiBlockTable.tsx
\* ------------------------------------------------------------------------
MaxTerms == 2       \* independent variables of a fit

MaxScanRows == 3    \* rows of an arbitrary table handed to MultiBlockTable

\* a statistic of the fit, in ten-thousandths: what stats::lm and summary
\* give is drawn by the seed
Stat(in, a) == RNum(((in.seed + 1) * (a + 2) * 1237) % 30000)

Prob(in, a) == RNum(((in.seed + 1) * (a + 2) * 1237) % 10000)

\* rownames(sm$coefficients)
TermsOf(in) == (IF in.intercept THEN <<"(Intercept)">> ELSE << >>) \o in.indep

RRow(cells) == [j \in 1..Len(cells) |-> ToJSON(cells[j])]

RowsSummary(in) ==
  <<RRow(<<RStr("--- Model Summary ---"), RStr(""), RStr(""), RStr(""), RStr(""), RStr(""), RStr("")>>),
    RRow(<<RStr("R-squared"), RStr("Adj. R-squared"), RStr("Residual Std. Error"), RStr("Residual DF"),
           RStr("F-statistic"), RStr("Pr(>F)"), RStr("")>>),
    RRow(<<FormatNum(IF in.perfect THEN RNum(10000) ELSE Prob(in, 1)),
           FormatNum(IF in.perfect THEN RNum(10000) ELSE Prob(in, 2)),
           FormatNum(IF in.perfect THEN RNum(0) ELSE Stat(in, 3)),
           FormatDf(RNum(30000)),
           FormatNum(IF in.perfect THEN RNaN ELSE Stat(in, 4)),
           FormatPval(IF in.perfect THEN RNa ELSE Prob(in, 5)),
           RStr("")>>)>>

\* one row per coefficient: Beta and VIF are NA for the intercept, VIF is 1
\* for a single predictor
CoefRow(in, i) ==
  LET nm == TermsOf(in)[i]
      beta == IF nm = "(Intercept)" \/ in.perfect THEN RNa ELSE Stat(in, 10 + i)
      vif == IF nm = "(Intercept)" THEN RNa
             ELSE IF Len(in.indep) = 1 THEN RNum(10000)
             ELSE IF in.perfect THEN RInf
             ELSE RNum(10000 + Stat(in, 20 + i).v)
  IN RRow(<<RStr(nm), FormatNum(Stat(in, 30 + i)), FormatNum(beta), FormatNum(Stat(in, 40 + i)),
            FormatNum(Stat(in, 50 + i)), FormatPval(Prob(in, 60 + i)), FormatNum(vif)>>)

RowsCoef(in) ==
  <<RRow(<<RStr("--- Coefficients ---"), RStr(""), RStr(""), RStr(""), RStr(""), RStr(""), RStr("")>>),
    RRow(<<RStr("Term"), RStr("Estimate"), RStr("Beta"), RStr("Std. Error"), RStr("t value"),
           RStr("Pr(>|t|)"), RStr("VIF")>>)>>
  \o [i \in 1..Len(TermsOf(in)) |-> CoefRow(in, i)]

RowsAnova(in) ==
  LET sse == IF in.perfect THEN RNum(0) ELSE Stat(in, 6)
      ssr == Stat(in, 7)
      mse == IF in.perfect THEN RNum(0) ELSE Stat(in, 8)
      fAnova == IF mse.v > 0 THEN Stat(in, 9) ELSE RNa
      pAnova == IF RIsNa(fAnova) THEN RNa ELSE Prob(in, 9)
  IN <<RRow(<<RStr("--- ANOVA ---"), RStr(""), RStr(""), RStr(""), RStr(""), RStr(""), RStr("")>>),
       RRow(<<RStr("Source"), RStr("Sum Sq"), RStr("Df"), RStr("Mean Sq"), RStr("F value"),
              RStr("Pr(>F)"), RStr("")>>),
       RRow(<<RStr("Regression"), FormatNum(ssr), FormatDf(RNum(10000 * Len(in.indep))),
              FormatNum(Stat(in, 5)), FormatNum(fAnova), FormatPval(pAnova), RStr("")>>),
       RRow(<<RStr("Residuals"), FormatNum(sse), FormatDf(RNum(30000)), FormatNum(mse),
              RStr(""), RStr(""), RStr("")>>),
       RRow(<<RStr("Total"), FormatNum(RNum(ssr.v + sse.v)), FormatDf(RNum(30000 + 10000 * Len(in.indep))),
              RStr(""), RStr(""), RStr(""), RStr("")>>)>>

RegressionHeaders == <<"Section", "C1", "C2", "C3", "C4", "C5", "C6">>

LinearRegressionParsed(in) ==
  [headers |-> RegressionHeaders, rows |-> RowsSummary(in) \o RowsCoef(in) \o RowsAnova(in)]

\* the keys of mapHeaderToJa's dictionary whose label differs from the key
JaKeys ==
  {"R-squared", "Adj. R-squared", "Residual Std. Error", "Residual DF", "F-statistic", "Pr(>F)",
   "Term", "Estimate", "Std. Error", "t value", "Pr(>|t|)", "Beta",
   "Source", "Sum Sq", "Df", "Mean Sq", "F value"}

\* dict[h] ?? h; the Japanese label of the key h is written "ja:" h
MapHeaderToJa(h) == IF h \in JaKeys THEN "ja:" \o h ELSE h

\* rows[i + 1] ?? [], each cell through mapHeaderToJa(String(v ?? ''))
BlockHeaders(rows, i) ==
  IF i + 1 > Len(rows) THEN << >>
  ELSE [j \in 1..Len(rows[i + 1]) |-> MapHeaderToJa(CellText(rows[i + 1][j]))]

NoBlock == [title |-> "", headers |-> << >>, rows |-> << >>]

NoFit == [indep |-> << >>, intercept |-> TRUE, seed |-> 0, perfect |-> FALSE]

\* rows of arbitrary tables: a section label, plain text, a missing first
\* cell, an empty row
ScanRows ==
  {<<WStr("--- A ---"), WStr("")>>, <<WStr("--- B ---")>>, <<WStr("x"), WNull>>, <<WNull, WStr("y")>>, << >>}

DistinctSeqs(S, n) == {q \in SeqsUpTo(S, n) : \A i, j \in 1..Len(q) : i # j => q[i] # q[j]}

IdleBlockVars ==
  /\ mbPc = "idle"
  /\ mbIn = NoFit
  /\ mbData = NoTable
  /\ mbI = 1
  /\ mbCur = NoBlock
  /\ mbBlocks = << >>

\* either a fit whose table is still to be built, or an arbitrary table
InitBlockVars ==
  /\ \/ /\ mbPc = "start"
        /\ \E ind \in DistinctSeqs({"a", "b", "a*b"}, MaxTerms) \ {<< >>},
              ic \in BOOLEAN, seed \in 0..1, perfect \in BOOLEAN :
             mbIn = [indep |-> ind, intercept |-> ic, seed |-> seed, perfect |-> perfect]
        /\ mbData = NoTable
     \/ /\ mbPc = "scan"
        /\ mbIn = NoFit
        /\ \E rows \in SeqsUpTo(ScanRows, MaxScanRows) : mbData = [headers |-> <<"h">>, rows |-> rows]
  /\ mbI = 1
  /\ mbCur = NoBlock
  /\ mbBlocks = << >>

CallLinearRegressionParsed ==
  /\ mbPc = "start"
  /\ mbData' = LinearRegressionParsed(mbIn)
  /\ mbPc' = "scan"
  /\ UNCHANGED <<mbIn, mbI, mbCur, mbBlocks>>
  /\ UNCHANGED <<storeVars, engineVars, panelVars, resultVars, cliVars, codecVars, corrVars, sortVars, callVars, multiVars, scriptVars, selectorVars, interVars>>

AtLabel == mbI <= Len(mbData.rows) /\ Len(mbData.rows[mbI]) > 0 /\ IsSectionLabel(mbData.rows[mbI][1])

\* outer loop, row i is not a section label: skip it
ScanSkip ==
  /\ mbPc = "scan"
  /\ mbI <= Len(mbData.rows)
  /\ ~AtLabel
  /\ mbI' = mbI + 1
  /\ UNCHANGED <<mbPc, mbIn, mbData, mbCur, mbBlocks>>
  /\ UNCHANGED <<storeVars, engineVars, panelVars, resultVars, cliVars, codecVars, corrVars, sortVars, callVars, multiVars, scriptVars, selectorVars, interVars>>

\* outer loop, row i is a section label: the next row is the header row
ScanOpen_NoHeaderRow ==
  /\ mbPc = "scan"
  /\ AtLabel
  /\ mbCur' = [title |-> NormalizeTitle(mbData.rows[mbI][1].s), headers |-> << >>, rows |-> << >>]
  /\ mbI' = mbI + 1
  /\ mbPc' = "inner"
  /\ UNCHANGED <<mbIn, mbData, mbBlocks>>
  /\ UNCHANGED <<storeVars, engineVars, panelVars, resultVars, cliVars, codecVars, corrVars, sortVars, callVars, multiVars, scriptVars, selectorVars, interVars>>
ScanOpen ==
  /\ mbPc = "scan"
  /\ AtLabel
  /\ mbCur' = [title |-> NormalizeTitle(mbData.rows[mbI][1].s),
               headers |-> BlockHeaders(mbData.rows, mbI), rows |-> << >>]
  /\ mbI' = mbI + 2
  /\ mbPc' = "inner"
  /\ UNCHANGED <<mbIn, mbData, mbBlocks>>
  /\ UNCHANGED <<storeVars, engineVars, panelVars, resultVars, cliVars, codecVars, corrVars, sortVars, callVars, multiVars, scriptVars, selectorVars, interVars>>

\* inner loop: accumulate until the next section label or the end
ScanBody ==
  /\ mbPc = "inner"
  /\ mbI <= Len(mbData.rows)
  /\ ~AtLabel
  /\ mbCur' = [mbCur EXCEPT !.rows = Append(@, RowText(mbData.rows[mbI]))]
  /\ mbI' = mbI + 1
  /\ UNCHANGED <<mbPc, mbIn, mbData, mbBlocks>>
  /\ UNCHANGED <<storeVars, engineVars, panelVars, resultVars, cliVars, codecVars, corrVars, sortVars, callVars, multiVars, scriptVars, selectorVars, interVars>>

ScanClose ==
  /\ mbPc = "inner"
  /\ (mbI > Len(mbData.rows) \/ AtLabel)
  /\ mbBlocks' = Append(mbBlocks, mbCur)
  /\ mbCur' = NoBlock
  /\ mbPc' = "scan"
  /\ UNCHANGED <<mbIn, mbData, mbI>>
  /\ UNCHANGED <<storeVars, engineVars, panelVars, resultVars, cliVars, codecVars, corrVars, sortVars, callVars, multiVars, scriptVars, selectorVars, interVars>>

ScanEnd ==
  /\ mbPc = "scan"
  /\ mbI > Len(mbData.rows)
  /\ mbPc' = "done"
  /\ UNCHANGED <<mbIn, mbData, mbI, mbCur, mbBlocks>>
  /\ UNCHANGED <<storeVars, engineVars, panelVars, resultVars, cliVars, codecVars, corrVars, sortVars, callVars, multiVars, scriptVars, selectorVars, interVars>>

NextBlocks ==
  \/ CallLinearRegressionParsed
  \/ ScanSkip
  \/ ScanOpen
  \/ ScanBody
  \/ ScanClose
  \/ ScanEnd

\* ------------------------------------------------------------------------
\* descriptive.R: .DescribeParsed and the sorter of utils.R
\* ------------------------------------------------------------------------
MaxSortRows == 3    \* variables (rows) of the descriptive table

\* the order option as the caller may pass it
SortOrders == {"", "default", "mean", "mean_asc", "mean_desc", "Mean_Desc", "median"}

\* the means colMeans may give (ten-thousandths); NaN for an empty column
MeanSamples == {RNum(-150), RNum(5), RNum(123), RNum(124), RNum(200), RNum(-4), RNaN}

\* base::tolower on the order options in use
ToLower(c) == IF c = "Mean_Desc" THEN "mean_desc" ELSE c

\* Sort(criterion, desc = FALSE): the normalised criterion and direction
SortCriterion(c) ==
  LET c1 == IF c = "" THEN "default" ELSE c
      c2 == ToLower(c1)
  IN IF c2 \in {"mean_asc", "mean_desc"}
     THEN [criterion |-> "mean", desc |-> c2 = "mean_desc"]
     ELSE [criterion |-> c2, desc |-> FALSE]

\* a row of .DescribeParsed: c(var, FormatNum(mean), FormatNum(sd), ...);
\* the other statistics are held fixed
DescribeRow(i, mean) ==
  <<RStr(VarName(i)), FormatNum(mean), FormatNum(RNum(10000)), FormatNum(RNum(0)), FormatNum(RNum(30000))>>

DescribeHeaders == <<"Variable", "Mean", "SD", "Min", "Max">>

DescribeParsed(means) ==
  [headers |-> DescribeHeaders, rows |-> [i \in 1..Len(means) |-> DescribeRow(i, means[i])]]

\* which(headers == "Mean"), falling back to column 2
MeanIdx(headers) ==
  LET hits == {i \in 1..Len(headers) : headers[i] = "Mean"}
  IN IF Cardinality(hits) = 1 THEN CHOOSE i \in hits : TRUE ELSE 2

ParseRange == 25    \* as.numeric is evaluated on decimals of up to ParseRange thousandths

\* the "%.3f" print of every number of thousandths in range
DecimalStrings ==
  [t \in (-ParseRange)..ParseRange |->
     (IF t < 0 THEN "-" ELSE "") \o ToString(Abs(t) \div 1000) \o "." \o Pad3(Abs(t) % 1000)]

\* as.numeric of a cell: the number a decimal string denotes (ten-thousandths),
\* NA for a missing cell and for any other string
AsNumeric(c) ==
  IF c.k # "str" THEN RNa
  ELSE IF c.s = "-0.000" THEN RNum(0)
  ELSE LET ts == {t \in DOMAIN DecimalStrings : DecimalStrings[t] = c.s}
       IN IF ts = {} THEN RNa ELSE RNum(10 * (CHOOSE t \in ts : TRUE))

\* does key a come strictly before key b under order(decreasing, na.last = TRUE)
KeyBefore(a, b, desc) ==
  IF RIsNa(a) THEN FALSE
  ELSE IF RIsNa(b) THEN TRUE
  ELSE IF desc THEN a.v > b.v ELSE a.v < b.v

\* base::order: a stable ordering of the indices by key
RECURSIVE InsertIdx(_, _, _, _)
InsertIdx(sorted, i, keys, desc) ==
  IF sorted = << >> THEN <<i>>
  ELSE IF KeyBefore(keys[i], keys[Head(sorted)], desc) THEN <<i>> \o sorted
  ELSE <<Head(sorted)>> \o InsertIdx(Tail(sorted), i, keys, desc)

RECURSIVE OrderIdx(_, _, _)
OrderIdx(keys, k, desc) ==
  IF k = 0 THEN << >>
  ELSE InsertIdx(OrderIdx(keys, k - 1, desc), k, keys, desc)

\* the function Sort(criterion) returns, applied to parsed
Sorter_NaFirst(c, parsed) ==
  LET sc == SortCriterion(c)
      keys == [i \in 1..Len(parsed.rows) |-> AsNumeric(parsed.rows[i][MeanIdx(parsed.headers)])]
      ordr == OrderIdx(keys, Len(keys), ~sc.desc)
  IN IF sc.criterion # "mean" THEN parsed
     ELSE [parsed EXCEPT !.rows = [i \in 1..Len(ordr) |-> parsed.rows[ordr[Len(ordr) + 1 - i]]]]
Sorter(c, parsed) ==
  LET sc == SortCriterion(c)
      keys == [i \in 1..Len(parsed.rows) |-> AsNumeric(parsed.rows[i][MeanIdx(parsed.headers)])]
      ordr == OrderIdx(keys, Len(keys), sc.desc)
  IN IF sc.criterion = "default" THEN parsed
     ELSE IF sc.criterion # "mean" THEN parsed
     ELSE [parsed EXCEPT !.rows = [i \in 1..Len(ordr) |-> parsed.rows[ordr[i]]]]

NoParsed == [headers |-> << >>, rows |-> << >>]

IdleSortVars ==
  /\ sortPc = "idle"
  /\ sortIn = [order |-> "", means |-> << >>]
  /\ sortParsed = NoParsed
  /\ sortOut = NoParsed

InitSortVars ==
  /\ sortPc = "start"
  /\ \E n \in 1..MaxSortRows, o \in SortOrders :
       \E ms \in [1..n -> MeanSamples] : sortIn = [order |-> o, means |-> ms]
  /\ sortParsed = NoParsed
  /\ sortOut = NoParsed

\* stats <- .Describe(df); parsed <- .DescribeParsed(stats)
RunDescribeParsed ==
  /\ sortPc = "start"
  /\ sortParsed' = DescribeParsed(sortIn.means)
  /\ sortPc' = "parsed"
  /\ UNCHANGED <<sortIn, sortOut>>
  /\ UNCHANGED <<storeVars, engineVars, panelVars, resultVars, cliVars, codecVars, corrVars, callVars, multiVars, blockVars, scriptVars, selectorVars, interVars>>

\* sorter <- Sort(ord); parsed <- sorter(parsed)
RunSort ==
  /\ sortPc = "parsed"
  /\ sortOut' = Sorter(sortIn.order, sortParsed)
  /\ sortPc' = "sorted"
  /\ UNCHANGED <<sortIn, sortParsed>>
  /\ UNCHANGED <<storeVars, engineVars, panelVars, resultVars, cliVars, codecVars, corrVars, callVars, multiVars, blockVars, scriptVars, selectorVars, interVars>>

NextSort ==
  \/ RunDescribeParsed
  \/ RunSort

\* ------------------------------------------------------------------------
\* err.R, design.R and the validation of the other handlers
\* ------------------------------------------------------------------------
RNull == [k |-> "NULL", s |-> "", v |-> 0, neg |-> FALSE]

ErrCodes ==
  {"ERR-810", "ERR-811", "ERR-831", "ERR-845", "ERR-846", "ERR-847", "ERR-848", "ERR-849",
   "ERR-901", "ERR-902", "ERR-903", "ERR-904", "ERR-905", "ERR-906", "ERR-907", "ERR-908",
   "ERR-940"}

ERR_MESSAGES ==
  [c \in ErrCodes |->
     CASE c = "ERR-810" -> "Invalid data type (must be data.frame)"
       [] c = "ERR-811" -> "Non-numeric columns detected"
       [] c = "ERR-831" -> "Not enough numeric columns (need at least two)"
       [] c = "ERR-845" -> "sig_level must be between 0 and 1"
       [] c = "ERR-846" -> "power must be between 0 and 1"
       [] c = "ERR-847" -> "k must be >= 2"
       [] c = "ERR-848" -> "categories must be >= 2"
       [] c = "ERR-849" -> "u must be >= 1"
       [] c = "ERR-901" -> "R module 'constants.R' not found under src-r/R"
       [] c = "ERR-902" -> "R module 'err.R' not found under src-r/R"
       [] c = "ERR-903" -> "R module 'descriptive.R' not found under src-r/R"
       [] c = "ERR-904" -> "R module 'correlation.R' not found under src-r/R"
       [] c = "ERR-905" -> "R module 'reliability.R' not found under src-r/R"
       [] c = "ERR-906" -> "R module 'regression.R' not found under src-r/R"
       [] c = "ERR-907" -> "R module 'design.R' not found under src-r/R"
       [] c = "ERR-908" -> "R module 'centering.R' not found under src-r/R"
       [] OTHER -> "Internal error in design module"]

\* the outcome of a call: a table, or an error with its message and cause
Returned(t) == [kind |-> "table", msg |-> "", cause |-> "", table |-> t]

Stop(msg, cause) == [kind |-> "stop", msg |-> msg, cause |-> cause, table |-> NoTable]

NoOut == [kind |-> "none", msg |-> "", cause |-> "", table |-> NoTable]

StopWithErrCode(code, cause) ==
  IF code \notin DOMAIN ERR_MESSAGES THEN Stop("unknown error code", cause)
  ELSE Stop(code \o ": " \o ERR_MESSAGES[code], cause)

\* COHEN_ES of constants.R, in ten-thousandths
CohenNames == {"anov", "chisq", "f2", "p", "r", "t"}

COHEN_ES(test) ==
  IF test = "t" THEN RNum(2000)
  ELSE IF test = "f2" THEN RNum(200)
  ELSE RNum(1000)

\* !is.finite(v) || v <= 0 || v >= 1
OutsideUnit(x) == ~RIsFinite(x) \/ x.v <= 0 \/ x.v >= 10000

\* what the pwr solver gives when it converges, and its message when not
SolverN == RNum(637700)

SolverMessage == "f() values at end points not of opposite sign"

DesignHeaders == <<"Required N", "Effect size", "Alpha", "Power", "Additional">>

DesignRow(in, nval, addText) ==
  [headers |-> DesignHeaders,
   rows |-> <<<<ToJSON(nval), ToJSON(FormatNum(COHEN_ES(in.test))), ToJSON(FormatNum(in.sig)),
               ToJSON(FormatNum(in.power)), WStr(addText)>>>>]

\* RunDesign: common validation, then the branch of the test family
RunDesign(in) ==
  IF in.test = "" THEN StopWithErrCode("ERR-940", "validation")
  ELSE IF ~in.cohen THEN StopWithErrCode("ERR-940", "validation")
  ELSE IF in.test \notin CohenNames THEN StopWithErrCode("ERR-940", "validation")
  ELSE IF in.sig = RNull THEN StopWithErrCode("ERR-940", "validation")
  ELSE IF OutsideUnit(in.sig) THEN StopWithErrCode("ERR-845", "validation")
  ELSE IF in.power = RNull THEN StopWithErrCode("ERR-940", "validation")
  ELSE IF OutsideUnit(in.power) THEN StopWithErrCode("ERR-846", "validation")
  ELSE IF in.test = "t"
  THEN IF in.ttype \notin {"", "one.sample", "two.sample", "paired"}
       THEN StopWithErrCode("ERR-940", "validation")
       ELSE IF ~in.solverOk
            THEN Returned(DesignRow(in, FormatDf(RNa), "ERROR:t-test:" \o SolverMessage))
            ELSE Returned(DesignRow(in, FormatDf(SolverN), ""))
  ELSE IF in.test = "anov"
  THEN IF in.param = RNull THEN StopWithErrCode("ERR-940", "validation")
       ELSE IF ~RIsFinite(in.param) \/ in.param.v < 20000 THEN StopWithErrCode("ERR-847", "validation")
       ELSE IF ~in.solverOk THEN Stop(SolverMessage, "solver")
       ELSE Returned(DesignRow(in, FormatDf(RNum((in.param.v \div 10000) * SolverN.v)), ""))
  ELSE IF in.test = "chisq"
  THEN IF in.param = RNull THEN StopWithErrCode("ERR-940", "validation")
       ELSE IF ~RIsFinite(in.param) \/ in.param.v < 20000 THEN StopWithErrCode("ERR-848", "validation")
       ELSE IF ~in.solverOk THEN Stop(SolverMessage, "solver")
       ELSE Returned(DesignRow(in, FormatDf(SolverN), ""))
  ELSE IF in.test = "f2"
  THEN IF in.param = RNull THEN StopWithErrCode("ERR-940", "validation")
       ELSE IF ~RIsFinite(in.param) \/ in.param.v < 10000 THEN StopWithErrCode("ERR-849", "validation")
       ELSE IF ~in.solverOk THEN Stop(SolverMessage, "solver")
       ELSE Returned(DesignRow(in, FormatDf(RNum(SolverN.v + in.param.v + 10000)), ""))
  ELSE StopWithErrCode("ERR-940", "validation")

CalcErrorText == "calculation error: no sample size could be found for the given conditions"

\* formatDesignAdditional: the error text for a row whose fifth cell starts
\* with "ERROR:"; the label assembled from the parameters is left empty
FormatDesignAdditional(row) ==
  LET cells == [i \in 1..Len(row) |-> IF row[i].k \in {"null", "undef"} THEN "" ELSE row[i].s]
      additionalRaw == IF Len(cells) >= 5 THEN cells[5] ELSE ""
  IN IF StartsWith(additionalRaw, "ERROR:") THEN CalcErrorText ELSE ""

\* IsDataFrame, then the column checks of .CorrTest
CorrValidate(in) ==
  IF ~in.isDf THEN StopWithErrCode("ERR-810", "validation")
  ELSE IF ~in.numeric THEN StopWithErrCode("ERR-811", "validation")
  ELSE IF in.ncols < 2 THEN StopWithErrCode("ERR-831", "validation")
  ELSE [NoOut EXCEPT !.kind = "valid"]

\* IsDataFrame, then the item count check of .CronbachAlpha
ReliabilityValidate(in) ==
  IF ~in.isDf THEN StopWithErrCode("ERR-810", "validation")
  ELSE IF in.ncols < 2 THEN StopWithErrCode("ERR-831", "validation")
  ELSE [NoOut EXCEPT !.kind = "valid"]

ReliabilityHeaders == <<"Statistic", "Value">>

\* the Value cell of the omega row, a Japanese label meaning "not implemented"
NotImplemented == "mijissou"

\* .ReliabilityParsed: non-numeric columns are dropped, then the model's branch
ReliabilityParsed(in, model) ==
  IF ~in.isDf THEN StopWithErrCode("ERR-810", "validation")
  ELSE IF model = "alpha"
  THEN LET v == ReliabilityValidate([in EXCEPT !.ncols = in.nnum])
       IN IF v.kind = "stop" THEN v
          ELSE Returned([headers |-> ReliabilityHeaders,
                         rows |-> <<<<WStr("Cronbach's alpha"), ToJSON(FormatNum(in.alpha))>>>>])
  ELSE Returned([headers |-> ReliabilityHeaders,
                 rows |-> <<<<WStr("Omega"), WStr(NotImplemented)>>>>])

\* RunReliability: a missing or empty model is alpha
RunReliability(in) == ReliabilityParsed(in, IF in.model = "" THEN "alpha" ELSE in.model)

\* the columns of the regression dataset
RegressionColumns == {"y", "a", "b"}

RECURSIVE JoinNames(_)
JoinNames(q) ==
  IF q = << >> THEN ""
  ELSE IF Len(q) = 1 THEN q[1]
  ELSE q[1] \o ", " \o JoinNames(Tail(q))

\* setdiff(c(dep, indep), vars), in order
MissingCols(in) == Keep(<<in.dep>> \o in.indep, {x \in Range(<<in.dep>> \o in.indep) : x \notin RegressionColumns})

\* the argument checks of .LinearRegression
LinearRegressionValidate(in) ==
  IF in.dataNull THEN Stop("data is NULL", "validation")
  ELSE IF in.dep = "" THEN Stop("'dependent' must be a single variable name", "validation")
  ELSE IF Len(in.indep) < 1 \/ \E i \in 1..Len(in.indep) : in.indep[i] = ""
       THEN Stop("'independents' must contain at least one variable name", "validation")
  ELSE IF MissingCols(in) # << >>
       THEN Stop("Columns not found in data: " \o JoinNames(MissingCols(in)), "validation")
  ELSE [NoOut EXCEPT !.kind = "valid"]

\* the modules GetAnalysesRegistry sources, in order
RegistryModules == <<"descriptive.R", "correlation.R", "reliability.R", "regression.R">>

\* GetAnalysesRegistry: the first module that is not on disk stops the load
GetAnalysesRegistry(in) ==
  LET gone == {i \in 1..Len(RegistryModules) : RegistryModules[i] \in in.missing}
  IN IF gone = {} THEN [NoOut EXCEPT !.kind = "valid"]
     ELSE Stop(RegistryModules[CHOOSE i \in gone : \A j \in gone : i <= j]
                 \o " not found under src-r/R", "contract")

NoCall ==
  [kind |-> "none", test |-> "", sig |-> RNull, power |-> RNull, ttype |-> "", param |-> RNull,
   cohen |-> TRUE, solverOk |-> TRUE, isDf |-> TRUE, numeric |-> TRUE, ncols |-> 0,
   dataNull |-> FALSE, dep |-> "", indep |-> << >>, missing |-> {},
   nnum |-> 0, model |-> "", alpha |-> RNull]

DesignCalls ==
  {[NoCall EXCEPT !.kind = "design", !.test = t, !.sig = s, !.power = p, !.ttype = ty,
                  !.param = pa, !.cohen = c, !.solverOk = ok] :
     t \in {"", "t", "anov", "chisq", "f2", "r", "z"},
     s \in {RNull, RNa, RNum(0), RNum(500), RNum(10000)},
     p \in {RNull, RNum(0), RNum(8000)},
     ty \in {"", "paired", "bogus"},
     pa \in {RNull, RNa, RNum(10000), RNum(30000)},
     c \in BOOLEAN, ok \in BOOLEAN}

\* data frames of ncols columns of which nnum are numeric
DataCalls ==
  {c \in {[NoCall EXCEPT !.kind = k, !.isDf = d, !.numeric = (m = n), !.ncols = n, !.nnum = m] :
            k \in {"correlation", "reliability"}, d \in BOOLEAN, n \in 0..3, m \in 0..3} :
     c.nnum <= c.ncols}

\* calls of the reliability handler, with the coefficient the variances give
ReliabilityCalls ==
  {c \in {[NoCall EXCEPT !.kind = "runReliability", !.isDf = d, !.ncols = n, !.nnum = m,
                         !.numeric = (m = n), !.model = mo, !.alpha = a] :
            d \in BOOLEAN, n \in 0..3, m \in 0..3, mo \in {"", "alpha", "omega"},
            a \in {RNum(8123), RNaN}} :
     c.nnum <= c.ncols}

RegressionCalls ==
  {[NoCall EXCEPT !.kind = "regression", !.dataNull = dn, !.dep = d, !.indep = i] :
     dn \in BOOLEAN, d \in {"", "y", "w"},
     i \in {<< >>, <<"a">>, <<"">>, <<"a", "zz">>, <<"q", "zz">>}}

LoadCalls ==
  {[NoCall EXCEPT !.kind = "load", !.missing = m] :
     m \in SUBSET {"descriptive.R", "regression.R"}}

IdleCallVars ==
  /\ callPc = "idle"
  /\ callIn = NoCall
  /\ callOut = NoOut
  /\ callShown = ""

InitDesignVars ==
  /\ callPc = "start"
  /\ callIn \in DesignCalls
  /\ callOut = NoOut
  /\ callShown = ""

InitCallVars ==
  /\ callPc = "start"
  /\ callIn \in DesignCalls \cup DataCalls \cup ReliabilityCalls \cup RegressionCalls \cup LoadCalls
  /\ callOut = NoOut
  /\ callShown = ""

\* the pc after a call: a table came back, validation passed, or R stopped
PcAfter(out) == IF out.kind = "table" THEN "returned" ELSE IF out.kind = "valid" THEN "valid" ELSE "stopped"

CallRunDesign ==
  /\ callPc = "start"
  /\ callIn.kind = "design"
  /\ callOut' = RunDesign(callIn)
  /\ callPc' = PcAfter(RunDesign(callIn))
  /\ UNCHANGED <<callIn, callShown>>
  /\ UNCHANGED <<storeVars, engineVars, panelVars, resultVars, cliVars, codecVars, corrVars, sortVars, multiVars, blockVars, scriptVars, selectorVars, interVars>>

CallCorrTest ==
  /\ callPc = "start"
  /\ callIn.kind = "correlation"
  /\ callOut' = CorrValidate(callIn)
  /\ callPc' = PcAfter(CorrValidate(callIn))
  /\ UNCHANGED <<callIn, callShown>>
  /\ UNCHANGED <<storeVars, engineVars, panelVars, resultVars, cliVars, codecVars, corrVars, sortVars, multiVars, blockVars, scriptVars, selectorVars, interVars>>

CallCronbachAlpha ==
  /\ callPc = "start"
  /\ callIn.kind = "reliability"
  /\ callOut' = ReliabilityValidate(callIn)
  /\ callPc' = PcAfter(ReliabilityValidate(callIn))
  /\ UNCHANGED <<callIn, callShown>>
  /\ UNCHANGED <<storeVars, engineVars, panelVars, resultVars, cliVars, codecVars, corrVars, sortVars, multiVars, blockVars, scriptVars, selectorVars, interVars>>

CallRunReliability ==
  /\ callPc = "start"
  /\ callIn.kind = "runReliability"
  /\ callOut' = RunReliability(callIn)
  /\ callPc' = PcAfter(RunReliability(callIn))
  /\ UNCHANGED <<callIn, callShown>>
  /\ UNCHANGED <<storeVars, engineVars, panelVars, resultVars, cliVars, codecVars, corrVars, sortVars, multiVars, blockVars, scriptVars, selectorVars, interVars>>

CallLinearRegression ==
  /\ callPc = "start"
  /\ callIn.kind = "regression"
  /\ callOut' = LinearRegressionValidate(callIn)
  /\ callPc' = PcAfter(LinearRegressionValidate(callIn))
  /\ UNCHANGED <<callIn, callShown>>
  /\ UNCHANGED <<storeVars, engineVars, panelVars, resultVars, cliVars, codecVars, corrVars, sortVars, multiVars, blockVars, scriptVars, selectorVars, interVars>>

CallGetAnalysesRegistry ==
  /\ callPc = "start"
  /\ callIn.kind = "load"
  /\ callOut' = GetAnalysesRegistry(callIn)
  /\ callPc' = PcAfter(GetAnalysesRegistry(callIn))
  /\ UNCHANGED <<callIn, callShown>>
  /\ UNCHANGED <<storeVars, engineVars, panelVars, resultVars, cliVars, codecVars, corrVars, sortVars, multiVars, blockVars, scriptVars, selectorVars, interVars>>

\* the design table is shown: the Additional text of its row
ShowDesign ==
  /\ callPc = "returned"
  /\ callIn.kind = "design"
  /\ callShown' = FormatDesignAdditional(callOut.table.rows[1])
  /\ callPc' = "shown"
  /\ UNCHANGED <<callIn, callOut>>
  /\ UNCHANGED <<storeVars, engineVars, panelVars, resultVars, cliVars, codecVars, corrVars, sortVars, multiVars, blockVars, scriptVars, selectorVars, interVars>>

NextDesign ==
  \/ CallRunDesign
  \/ ShowDesign

NextCall ==
  \/ CallRunDesign
  \/ CallCorrTest
  \/ CallCronbachAlpha
  \/ CallRunReliability
  \/ CallLinearRegression
  \/ CallGetAnalysesRegistry
  \/ ShowDesign

\* ------------------------------------------------------------------------
\* cli.R: one run of the script, from its arguments to the output file
\* ------------------------------------------------------------------------
\* names(analyses): the handlers the registry returns
RegistryNames == <<"descriptive", "correlation", "reliability", "regression">>

InRegistry(a) == \E i \in 1..Len(RegistryNames) : RegistryNames[i] = a

\* the file at output_path before the run: none, or one left by an earlier run
NoFile == [exists |-> FALSE, content |-> NoTable]
StaleFile == [exists |-> TRUE, content |-> TableGood]

\* handler(dat, ...) for the analyses whose handler is modelled
Handler(in) ==
  IF in.analysis = "reliability" THEN RunReliability(in.call)
  ELSE IF RunCorrelationFails(in.multi) THEN Stop("stats::cor", "engine")
  ELSE Returned(RunCorrelation(in.multi))

NoScript ==
  [nargs |-> 0, analysis |-> "", inputExists |-> FALSE, jsonOk |-> FALSE, missing |-> {},
   call |-> NoCall, multi |-> NoMultiIn]

IdleScriptVars ==
  /\ scPc = "idle"
  /\ scIn = NoScript
  /\ scOut = NoOut
  /\ scErr = ""
  /\ outFile = NoFile
  /\ outWrites = 0

ScriptCalls ==
  {[analysis |-> "reliability", call |-> c, multi |-> NoMultiIn] : c \in ReliabilityCalls}
  \cup {[analysis |-> "correlation", call |-> NoCall,
         multi |-> [methods |-> ms, alt |-> "", use |-> "", seed |-> 0, x |-> x]] :
          ms \in {<<"pearson">>, <<"pearson", "kendall">>, <<"bogus">>},
          x \in {[i \in 1..2 |-> <<1, 2, 4>>], [i \in 1..2 |-> <<1, NaCell, 3>>]}}
  \cup {[analysis |-> a, call |-> NoCall, multi |-> NoMultiIn] : a \in {"design", "bogus", ""}}

InitScriptVars ==
  /\ scPc = "args"
  /\ \E n \in 0..4, ie \in BOOLEAN, js \in BOOLEAN, c \in ScriptCalls,
        m \in {{}, {"R"}, {"jsonlite"}, {"registry.R"}, {"regression.R"},
               {"descriptive.R", "regression.R"}} :
       scIn = [nargs |-> n, analysis |-> c.analysis, inputExists |-> ie, jsonOk |-> js,
               missing |-> m, call |-> c.call, multi |-> c.multi]
  /\ scOut = NoOut
  /\ scErr = ""
  /\ outFile \in {NoFile, StaleFile}
  /\ outWrites = 0

\* stop(): the script ends with the message
ScriptStop(msg) ==
  /\ scPc' = "stopped"
  /\ scErr' = msg

\* length(args_trailing) < 3, then file.exists(input_path)
ScriptArgs ==
  /\ scPc = "args"
  /\ IF scIn.nargs < 3 THEN ScriptStop("Usage")
     ELSE IF ~scIn.inputExists THEN ScriptStop("Input file not found")
     ELSE scPc' = "load" /\ UNCHANGED scErr
  /\ UNCHANGED <<scIn, scOut, outFile, outWrites>>
  /\ UNCHANGED <<storeVars, engineVars, panelVars, resultVars, cliVars, codecVars, corrVars, sortVars, callVars, multiVars, blockVars, selectorVars, interVars>>

\* the R directory, jsonlite, registry.R, the modules of the registry and
\* the handler of the analysis
ScriptLoad ==
  /\ scPc = "load"
  /\ IF "R" \in scIn.missing THEN ScriptStop("R directory not found")
     ELSE IF "jsonlite" \in scIn.missing THEN ScriptStop("Package 'jsonlite' is required.")
     ELSE IF "registry.R" \in scIn.missing THEN ScriptStop("registry.R not found under src-r/R")
     ELSE IF GetAnalysesRegistry(scIn).kind = "stop" THEN ScriptStop(GetAnalysesRegistry(scIn).msg)
     ELSE IF ~InRegistry(scIn.analysis) THEN ScriptStop("Unknown analysis: " \o scIn.analysis)
     ELSE scPc' = "read" /\ UNCHANGED scErr
  /\ UNCHANGED <<scIn, scOut, outFile, outWrites>>
  /\ UNCHANGED <<storeVars, engineVars, panelVars, resultVars, cliVars, codecVars, corrVars, sortVars, callVars, multiVars, blockVars, selectorVars, interVars>>

\* ReadJsonFile(input_path): jsonlite::fromJSON stops on malformed JSON
ScriptRead ==
  /\ scPc = "read"
  /\ IF ~scIn.jsonOk THEN ScriptStop("fromJSON")
     ELSE scPc' = "dispatch" /\ UNCHANGED scErr
  /\ UNCHANGED <<scIn, scOut, outFile, outWrites>>
  /\ UNCHANGED <<storeVars, engineVars, panelVars, resultVars, cliVars, codecVars, corrVars, sortVars, callVars, multiVars, blockVars, selectorVars, interVars>>

\* out <- handler(dat, ...): a stop raised by the handler ends the script
ScriptDispatch_Continue ==
  /\ scPc = "dispatch"
  /\ scIn.analysis \in {"reliability", "correlation"}
  /\ scOut' = Handler(scIn)
  /\ scPc' = "write"
  /\ scErr' = Handler(scIn).msg
  /\ UNCHANGED <<scIn, outFile, outWrites>>
  /\ UNCHANGED <<storeVars, engineVars, panelVars, resultVars, cliVars, codecVars, corrVars, sortVars, callVars, multiVars, blockVars, selectorVars, interVars>>
ScriptDispatch ==
  /\ scPc = "dispatch"
  /\ scIn.analysis \in {"reliability", "correlation"}
  /\ scOut' = Handler(scIn)
  /\ IF Handler(scIn).kind = "stop" THEN ScriptStop(Handler(scIn).msg)
     ELSE scPc' = "write" /\ UNCHANGED scErr
  /\ UNCHANGED <<scIn, outFile, outWrites>>
  /\ UNCHANGED <<storeVars, engineVars, panelVars, resultVars, cliVars, codecVars, corrVars, sortVars, callVars, multiVars, blockVars, selectorVars, interVars>>

\* WriteJsonFile(output_path, out): the file is opened with "w" and the
\* JSON text of out is written
ScriptWrite ==
  /\ scPc = "write"
  /\ outFile' = [exists |-> TRUE, content |-> scOut.table]
  /\ outWrites' = outWrites + 1
  /\ scPc' = "done"
  /\ UNCHANGED <<scIn, scOut, scErr>>
  /\ UNCHANGED <<storeVars, engineVars, panelVars, resultVars, cliVars, codecVars, corrVars, sortVars, callVars, multiVars, blockVars, selectorVars, interVars>>

NextScript ==
  \/ ScriptArgs
  \/ ScriptLoad
  \/ ScriptRead
  \/ ScriptDispatch
  \/ ScriptWrite

\* ------------------------------------------------------------------------
\* RegressionVariableSelector
\* ------------------------------------------------------------------------
\* the elements of q that satisfy Keep, in order
RECURSIVE FilterNames(_, _)
FilterNames(q, keep) ==
  IF q = << >> THEN << >>
  ELSE IF Head(q) \in keep THEN <<Head(q)>> \o FilterNames(Tail(q), keep)
  ELSE FilterNames(Tail(q), keep)

ElemsOf(q) == {q[i] : i \in 1..Len(q)}

\* a string is truthy unless it is empty; null is not
Truthy(d) == d # << >> /\ d[1] # ""

\* new Set([...independents, ...(dependent ? [dependent] : [])])
SelectedSet(dep, indep) == ElemsOf(indep) \cup (IF Truthy(dep) THEN {dep[1]} ELSE {})

\* allVariables.filter((v) => !selectedSet.has(v))
AvailableOf(all, dep, indep) == FilterNames(all, ElemsOf(all) \ SelectedSet(dep, indep))

\* available.filter((v) => availChecked[v])
Picked == FilterNames(available, availChecked)

\* the loop of handleAddIndependent: push the names the set does not hold
RECURSIVE AppendNew_NoSet(_, _)
AppendNew_NoSet(appended, picked) ==
  IF picked = << >> THEN appended
  ELSE AppendNew_NoSet(Append(appended, Head(picked)), Tail(picked))
RECURSIVE AppendNew(_, _)
AppendNew(appended, picked) ==
  IF picked = << >> THEN appended
  ELSE IF Head(picked) \in ElemsOf(appended) THEN AppendNew(appended, Tail(picked))
  ELSE AppendNew(Append(appended, Head(picked)), Tail(picked))

\* the sheets' header rows: distinct names, a repeated name, an empty name
HeaderRows == {<<"x", "y", "z">>, <<"x", "y", "x">>, <<"", "y", "z">>, <<"x">>}

IdleSelectorVars ==
  /\ allVariables = << >>
  /\ dependent = << >>
  /\ independents = << >>
  /\ available = << >>
  /\ availChecked = {}
  /\ indepChecked = {}

InitSelectorVars ==
  /\ allVariables \in HeaderRows
  /\ dependent = << >>
  /\ independents = << >>
  /\ available = AvailableOf(allVariables, << >>, << >>)
  /\ availChecked = {}
  /\ indepChecked = {}

\* applySelection(next), the render that follows and its useMemo
ApplySelection(dep, indep) ==
  /\ dependent' = dep
  /\ independents' = indep
  /\ available' = AvailableOf(allVariables, dep, indep)

OnAvailChange(name) ==
  /\ name \in ElemsOf(available)
  /\ availChecked' = IF name \in availChecked THEN availChecked \ {name} ELSE availChecked \cup {name}
  /\ UNCHANGED <<allVariables, dependent, independents, available, indepChecked>>
  /\ UNCHANGED <<storeVars, engineVars, panelVars, resultVars, cliVars, codecVars, corrVars, sortVars, callVars, multiVars, blockVars, scriptVars, interVars>>

OnIndepChange(name) ==
  /\ name \in ElemsOf(independents)
  /\ indepChecked' = IF name \in indepChecked THEN indepChecked \ {name} ELSE indepChecked \cup {name}
  /\ UNCHANGED <<allVariables, dependent, independents, available, availChecked>>
  /\ UNCHANGED <<storeVars, engineVars, panelVars, resultVars, cliVars, codecVars, corrVars, sortVars, callVars, multiVars, blockVars, scriptVars, interVars>>

HandleAddDependent ==
  /\ IF Len(Picked) # 1
     THEN UNCHANGED <<dependent, independents, available, availChecked>>
     ELSE /\ ApplySelection(<<Picked[1]>>, independents)
          /\ availChecked' = {}
  /\ UNCHANGED <<allVariables, indepChecked>>
  /\ UNCHANGED <<storeVars, engineVars, panelVars, resultVars, cliVars, codecVars, corrVars, sortVars, callVars, multiVars, blockVars, scriptVars, interVars>>

HandleRemoveDependent ==
  /\ IF ~Truthy(dependent)
     THEN UNCHANGED <<dependent, independents, available>>
     ELSE ApplySelection(<< >>, independents)
  /\ UNCHANGED <<allVariables, availChecked, indepChecked>>
  /\ UNCHANGED <<storeVars, engineVars, panelVars, resultVars, cliVars, codecVars, corrVars, sortVars, callVars, multiVars, blockVars, scriptVars, interVars>>

HandleAddIndependent ==
  /\ IF Len(Picked) = 0
     THEN UNCHANGED <<dependent, independents, available, availChecked>>
     ELSE /\ ApplySelection(dependent, AppendNew(independents, Picked))
          /\ availChecked' = {}
  /\ UNCHANGED <<allVariables, indepChecked>>
  /\ UNCHANGED <<storeVars, engineVars, panelVars, resultVars, cliVars, codecVars, corrVars, sortVars, callVars, multiVars, blockVars, scriptVars, interVars>>

HandleRemoveIndependent ==
  /\ IF indepChecked = {}
     THEN UNCHANGED <<dependent, independents, available, indepChecked>>
     ELSE /\ ApplySelection(dependent, FilterNames(independents, ElemsOf(independents) \ indepChecked))
          /\ indepChecked' = {}
  /\ UNCHANGED <<allVariables, availChecked>>
  /\ UNCHANGED <<storeVars, engineVars, panelVars, resultVars, cliVars, codecVars, corrVars, sortVars, callVars, multiVars, blockVars, scriptVars, interVars>>

NextSelector ==
  \/ \E name \in ElemsOf(allVariables) : OnAvailChange(name)
  \/ \E name \in ElemsOf(allVariables) : OnIndepChange(name)
  \/ HandleAddDependent
  \/ HandleRemoveDependent
  \/ HandleAddIndependent
  \/ HandleRemoveIndependent

\* ------------------------------------------------------------------------
\* RunRegression: the interaction terms
\* ------------------------------------------------------------------------
MaxItems == 2       \* items in options$interactions

\* lx * rx for one row; a missing factor gives a missing product
Times(a, b) == IF a = NaCell \/ b = NaCell THEN NaCell ELSE a * b

HasColumn(names, nm) == \E i \in 1..Len(names) : names[i] = nm

\* if (!nzchar(left) || !nzchar(right) || identical(left, right)) next
ItemIgnored(it) == it.left = "" \/ it.right = "" \/ it.left = it.right

\* !left %in% cols || !right %in% cols
ItemMissing(it, cols) == ~HasColumn(cols, it.left) \/ ~HasColumn(cols, it.right)

\* label_chr: the label, or left*right when it is empty
LabelChr(it) == IF it.label = "" THEN it.left \o "*" \o it.right ELSE it.label

\* label_chr %in% colnames(x)
LabelTaken_Never(lab, x) == FALSE
LabelTaken(lab, x) == HasColumn(ColNamesOf(x), lab)

\* as.numeric(x[[left]]) * as.numeric(x[[right]])
ProductColumn(x, it) ==
  [r \in 1..Len(ColumnNamed(x, it.left).vals) |->
     Times(ColumnNamed(x, it.left).vals[r], ColumnNamed(x, it.right).vals[r])]

\* x[[name]] <- vals: replaces the column of that name or appends one
SetColumn(x, nm, vals) ==
  IF HasColumn(ColNamesOf(x), nm)
  THEN [i \in 1..Len(x) |-> IF x[i].name = nm THEN [name |-> nm, vals |-> vals] ELSE x[i]]
  ELSE Append(x, [name |-> nm, vals |-> vals])

\* the data: y, a, b, and a sheet that already has a column named a*b
FrameYAB == <<[name |-> "y", vals |-> <<5, 6>>], [name |-> "a", vals |-> <<1, 2>>],
              [name |-> "b", vals |-> <<3, NaCell>>]>>
FrameWithProduct == Append(FrameYAB, [name |-> "a*b", vals |-> <<7, 7>>])

InteractionItems ==
  [left : {"", "a", "ab", "zz"}, right : {"", "a", "b"}, label : {"", "a", "ab"}]

IdleInterVars ==
  /\ irPc = "idle"
  /\ irX = << >>
  /\ irCols = << >>
  /\ irItems = << >>
  /\ irI = 1
  /\ irLabels = << >>
  /\ irIndep = << >>
  /\ irErr = ""

InitInterVars ==
  /\ irPc = "loop"
  /\ irX \in {FrameYAB, FrameWithProduct}
  /\ irCols = ColNamesOf(irX)
  /\ irItems \in SeqsUpTo(InteractionItems, MaxItems)
  /\ irI = 1
  /\ irLabels = << >>
  /\ irIndep = <<"a", "b">>
  /\ irErr = ""

\* next: the item is left out
ItemSkip ==
  /\ irPc = "loop" /\ irI <= Len(irItems)
  /\ \/ ItemIgnored(irItems[irI])
     \/ /\ ~ItemMissing(irItems[irI], irCols)
        /\ LabelTaken(LabelChr(irItems[irI]), irX)
  /\ irI' = irI + 1
  /\ UNCHANGED <<irPc, irX, irCols, irItems, irLabels, irIndep, irErr>>
  /\ UNCHANGED <<storeVars, engineVars, panelVars, resultVars, cliVars, codecVars, corrVars, sortVars, callVars, multiVars, blockVars, scriptVars, selectorVars>>

\* stop("Interaction columns not found: ...")
ItemStop ==
  /\ irPc = "loop" /\ irI <= Len(irItems)
  /\ ~ItemIgnored(irItems[irI])
  /\ ItemMissing(irItems[irI], irCols)
  /\ irPc' = "stopped"
  /\ irErr' = "Interaction columns not found: " \o irItems[irI].left \o ", " \o irItems[irI].right
  /\ UNCHANGED <<irX, irCols, irItems, irI, irLabels, irIndep>>
  /\ UNCHANGED <<storeVars, engineVars, panelVars, resultVars, cliVars, codecVars, corrVars, sortVars, callVars, multiVars, blockVars, scriptVars, selectorVars>>

\* the product column is added under the label
ItemCreate ==
  /\ irPc = "loop" /\ irI <= Len(irItems)
  /\ ~ItemIgnored(irItems[irI])
  /\ ~ItemMissing(irItems[irI], irCols)
  /\ ~LabelTaken(LabelChr(irItems[irI]), irX)
  /\ irX' = SetColumn(irX, LabelChr(irItems[irI]), ProductColumn(irX, irItems[irI]))
  /\ irLabels' = Append(irLabels, LabelChr(irItems[irI]))
  /\ irI' = irI + 1
  /\ UNCHANGED <<irPc, irCols, irItems, irIndep, irErr>>
  /\ UNCHANGED <<storeVars, engineVars, panelVars, resultVars, cliVars, codecVars, corrVars, sortVars, callVars, multiVars, blockVars, scriptVars, selectorVars>>

\* after the loop: indep <- c(indep, interaction_labels)
LoopEnd ==
  /\ irPc = "loop" /\ irI > Len(irItems)
  /\ irIndep' = IF Len(irLabels) > 0 THEN irIndep \o irLabels ELSE irIndep
  /\ irPc' = "done"
  /\ UNCHANGED <<irX, irCols, irItems, irI, irLabels, irErr>>
  /\ UNCHANGED <<storeVars, engineVars, panelVars, resultVars, cliVars, codecVars, corrVars, sortVars, callVars, multiVars, blockVars, scriptVars, selectorVars>>

NextInter ==
  \/ ItemSkip
  \/ ItemStop
  \/ ItemCreate
  \/ LoopEnd

\* ------------------------------------------------------------------------
\* Specifications
\* ------------------------------------------------------------------------
\* panel and result page at rest, used by the specifications that do not move them
IdlePanelVars ==
  /\ pkind = "analysis"
  /\ atype = "descriptive"
  /\ ready = FALSE
  /\ running = FALSE
  /\ aerror = "null"
  /\ apc = "idle"
  /\ awin = "open"
  /\ aresult = NoTable
  /\ atoken = NoTok
  /\ pending = NoTok
  /\ runCalls = NoCalls
  /\ lastEngine = "none"
  /\ clicks = 0
  /\ engineCalls = 0
  /\ inflight = 0

InitStore ==
  /\ InitStoreVars
  /\ InitEngineVars
  /\ IdlePanelVars
  /\ InitResultVars
  /\ IdleCliVars
  /\ IdleCodecVars
  /\ IdleCorrVars
  /\ IdleSortVars
  /\ IdleCallVars
  /\ IdleMultiVars
  /\ IdleBlockVars
  /\ IdleScriptVars
  /\ IdleSelectorVars
  /\ IdleInterVars

InitPanel ==
  /\ InitStoreVars
  /\ InitEngineVars
  /\ InitPanelVars
  /\ InitResultVars
  /\ IdleCliVars
  /\ IdleCodecVars
  /\ IdleCorrVars
  /\ IdleSortVars
  /\ IdleCallVars
  /\ IdleMultiVars
  /\ IdleBlockVars
  /\ IdleScriptVars
  /\ IdleSelectorVars
  /\ IdleInterVars

SpecPanel == InitPanel /\ [][NextPanel]_vars

SpecStore == InitStore /\ [][NextStore]_vars

InitEngine ==
  /\ InitStoreVars
  /\ InitEngineVars
  /\ IdlePanelVars
  /\ InitResultVars
  /\ IdleCliVars
  /\ IdleCodecVars
  /\ IdleCorrVars
  /\ IdleSortVars
  /\ IdleCallVars
  /\ IdleMultiVars
  /\ IdleBlockVars
  /\ IdleScriptVars
  /\ IdleSelectorVars
  /\ IdleInterVars

InitCli ==
  /\ InitStoreVars
  /\ InitEngineVars
  /\ IdlePanelVars
  /\ InitResultVars
  /\ InitCliVars
  /\ IdleCodecVars
  /\ IdleCorrVars
  /\ IdleSortVars
  /\ IdleCallVars
  /\ IdleMultiVars
  /\ IdleBlockVars
  /\ IdleScriptVars
  /\ IdleSelectorVars
  /\ IdleInterVars

SpecCli == InitCli /\ [][NextCli]_vars

InitCodec ==
  /\ InitStoreVars
  /\ InitEngineVars
  /\ IdlePanelVars
  /\ InitResultVars
  /\ IdleCliVars
  /\ InitCodecVars
  /\ IdleCorrVars
  /\ IdleSortVars
  /\ IdleCallVars
  /\ IdleMultiVars
  /\ IdleBlockVars
  /\ IdleScriptVars
  /\ IdleSelectorVars
  /\ IdleInterVars

SpecCodec == InitCodec /\ [][NextCodec]_vars

InitCorr ==
  /\ InitStoreVars
  /\ InitEngineVars
  /\ IdlePanelVars
  /\ InitResultVars
  /\ IdleCliVars
  /\ IdleCodecVars
  /\ InitCorrVars
  /\ IdleSortVars
  /\ IdleCallVars
  /\ IdleMultiVars
  /\ IdleBlockVars
  /\ IdleScriptVars
  /\ IdleSelectorVars
  /\ IdleInterVars

SpecCorr == InitCorr /\ [][NextCorr]_vars

InitSort ==
  /\ InitStoreVars
  /\ InitEngineVars
  /\ IdlePanelVars
  /\ InitResultVars
  /\ IdleCliVars
  /\ IdleCodecVars
  /\ IdleCorrVars
  /\ InitSortVars
  /\ IdleCallVars
  /\ IdleMultiVars
  /\ IdleBlockVars
  /\ IdleScriptVars
  /\ IdleSelectorVars
  /\ IdleInterVars

SpecSort == InitSort /\ [][NextSort]_vars

InitDesign ==
  /\ InitStoreVars
  /\ InitEngineVars
  /\ IdlePanelVars
  /\ InitResultVars
  /\ IdleCliVars
  /\ IdleCodecVars
  /\ IdleCorrVars
  /\ IdleSortVars
  /\ InitDesignVars
  /\ IdleMultiVars
  /\ IdleBlockVars
  /\ IdleScriptVars
  /\ IdleSelectorVars
  /\ IdleInterVars

SpecDesign == InitDesign /\ [][NextDesign]_vars

InitCall ==
  /\ InitStoreVars
  /\ InitEngineVars
  /\ IdlePanelVars
  /\ InitResultVars
  /\ IdleCliVars
  /\ IdleCodecVars
  /\ IdleCorrVars
  /\ IdleSortVars
  /\ InitCallVars
  /\ IdleMultiVars
  /\ IdleBlockVars
  /\ IdleScriptVars
  /\ IdleSelectorVars
  /\ IdleInterVars

SpecCall == InitCall /\ [][NextCall]_vars

InitMulti ==
  /\ InitStoreVars
  /\ InitEngineVars
  /\ IdlePanelVars
  /\ InitResultVars
  /\ IdleCliVars
  /\ IdleCodecVars
  /\ IdleCorrVars
  /\ IdleSortVars
  /\ IdleCallVars
  /\ InitMultiVars
  /\ IdleBlockVars
  /\ IdleScriptVars
  /\ IdleSelectorVars
  /\ IdleInterVars

SpecMulti == InitMulti /\ [][NextMulti]_vars

InitBlocks ==
  /\ InitStoreVars
  /\ InitEngineVars
  /\ IdlePanelVars
  /\ InitResultVars
  /\ IdleCliVars
  /\ IdleCodecVars
  /\ IdleCorrVars
  /\ IdleSortVars
  /\ IdleCallVars
  /\ IdleMultiVars
  /\ InitBlockVars
  /\ IdleScriptVars
  /\ IdleSelectorVars
  /\ IdleInterVars

\* the five analysis handlers of the registry, one call of one of them
InitHandlerVars ==
  \/ /\ InitSortVars
     /\ IdleMultiVars /\ IdleCallVars /\ IdleBlockVars
  \/ /\ mcPc = "start"
     /\ \E ms \in SeqsUpTo(Methods, MaxMethods), use \in {"", "pairwise.complete.obs"} :
          \E x \in [1..2 -> MultiColumns] :
            mcIn = [methods |-> ms, alt |-> "", use |-> use, seed |-> 0, x |-> x]
     /\ mcOut = NoTable
     /\ mcView = << >>
     /\ IdleSortVars /\ IdleCallVars /\ IdleBlockVars
  \/ /\ callPc = "start"
     /\ callIn \in DesignCalls \cup ReliabilityCalls
     /\ callOut = NoOut
     /\ callShown = ""
     /\ IdleSortVars /\ IdleMultiVars /\ IdleBlockVars
  \/ /\ mbPc = "start"
     /\ \E ind \in DistinctSeqs({"a", "b", "a*b"}, MaxTerms) \ {<< >>},
           ic \in BOOLEAN, seed \in 0..1, perfect \in BOOLEAN :
          mbIn = [indep |-> ind, intercept |-> ic, seed |-> seed, perfect |-> perfect]
     /\ mbData = NoTable
     /\ mbI = 1
     /\ mbCur = NoBlock
     /\ mbBlocks = << >>
     /\ IdleSortVars /\ IdleMultiVars /\ IdleCallVars

InitHandlers ==
  /\ InitStoreVars
  /\ InitEngineVars
  /\ IdlePanelVars
  /\ InitResultVars
  /\ IdleCliVars
  /\ IdleCodecVars
  /\ IdleCorrVars
  /\ InitHandlerVars
  /\ IdleScriptVars
  /\ IdleSelectorVars
  /\ IdleInterVars

NextHandlers ==
  \/ RunDescribeParsed
  \/ RunSort
  \/ CallRunCorrelation
  \/ CallRunCorrelationStops
  \/ CallRunReliability
  \/ CallLinearRegressionParsed
  \/ CallRunDesign

SpecHandlers == InitHandlers /\ [][NextHandlers]_vars

\* the scan is a loop of a synchronous callback: it keeps running
SpecBlocks == InitBlocks /\ [][NextBlocks]_vars /\ WF_vars(NextBlocks)

\* the runner's wait is scheduled: the clock advances and an exit or an
\* expiry is eventually reported; the process itself may never exit
SpecEngine ==
  /\ InitEngine
  /\ [][NextEngine]_vars
  /\ WF_vars(WaitTick)
  /\ WF_vars(WaitExit)
  /\ WF_vars(WaitTimeout)

InitScript ==
  /\ InitStoreVars
  /\ InitEngineVars
  /\ IdlePanelVars
  /\ InitResultVars
  /\ IdleCliVars
  /\ IdleCodecVars
  /\ IdleCorrVars
  /\ IdleSortVars
  /\ IdleCallVars
  /\ IdleMultiVars
  /\ IdleBlockVars
  /\ InitScriptVars
  /\ IdleSelectorVars
  /\ IdleInterVars

SpecScript == InitScript /\ [][NextScript]_vars

InitSelector ==
  /\ InitStoreVars
  /\ InitEngineVars
  /\ IdlePanelVars
  /\ InitResultVars
  /\ IdleCliVars
  /\ IdleCodecVars
  /\ IdleCorrVars
  /\ IdleSortVars
  /\ IdleCallVars
  /\ IdleMultiVars
  /\ IdleBlockVars
  /\ IdleScriptVars
  /\ InitSelectorVars
  /\ IdleInterVars

SpecSelector == InitSelector /\ [][NextSelector]_vars

InitInter ==
  /\ InitStoreVars
  /\ InitEngineVars
  /\ IdlePanelVars
  /\ InitResultVars
  /\ IdleCliVars
  /\ IdleCodecVars
  /\ IdleCorrVars
  /\ IdleSortVars
  /\ IdleCallVars
  /\ IdleMultiVars
  /\ IdleBlockVars
  /\ IdleScriptVars
  /\ IdleSelectorVars
  /\ InitInterVars

SpecInter == InitInter /\ [][NextInter]_vars

\* ------------------------------------------------------------------------
\* Properties
\* ------------------------------------------------------------------------

\* C1: each issued token yields its result at most once; a Consume made after
\* a Consume of the same token has succeeded fails as not-found and carries
\* no result.
C1_ConsumeAtMostOnce ==
  /\ \A k \in TokenIds : okCount[k] <= 1
  /\ \A c \in Consumers :
       (cpc[c] = "done" /\ cinfo[c].after)
         => (cres[c].outcome = "not_found" /\ cres[c].result = NoResult)

C1_Witness ==
  \E c \in Consumers :
    /\ cpc[c] = "done" /\ cinfo[c].after
    /\ okCount[ctok[c]] = 1
    /\ cres[c].outcome = "not_found"

\* C2: two overlapping Consume calls for the same token, both made while the
\* entry was held and unexpired and both reading before it expires: exactly
\* one succeeds and the other gets not-found.
RacingPair(c, d) ==
  /\ c # d
  /\ cpc[c] = "done" /\ cpc[d] = "done"
  /\ ctok[c] = ctok[d]
  /\ cinfo[c].race \/ cinfo[d].race
  /\ cinfo[c].live /\ cinfo[d].live
  /\ ~cinfo[c].stale /\ ~cinfo[d].stale

C2_ExactlyOneWins ==
  \A c \in Consumers : \A d \in Consumers :
    RacingPair(c, d) =>
      \/ (cres[c].outcome = "ok" /\ cres[d].outcome = "not_found")
      \/ (cres[d].outcome = "ok" /\ cres[c].outcome = "not_found")

C2_Witness ==
  \E c \in Consumers : \E d \in Consumers :
    RacingPair(c, d) /\ cres[c].outcome = "ok" /\ cres[d].outcome = "not_found"

\* C3: a Consume that reads an entry whose ttl has elapsed fails as expired,
\* swept or not; no result is ever returned for an expired token.
C3_ExpiredAtReadTime ==
  \A c \in Consumers :
    cpc[c] \in {"read", "done"} =>
      /\ (cinfo[c].present /\ cinfo[c].stale) => cres[c].outcome = "expired"
      /\ cinfo[c].stale => (cres[c].outcome # "ok" /\ cres[c].result = NoResult)

C3_Witness ==
  \E c \in Consumers :
    cpc[c] = "done" /\ cinfo[c].present /\ cinfo[c].stale /\ cres[c].outcome = "expired"

\* C5 (as stated): every Invoke returns one of a Tabular Result, a timeout
\* failure or an engine failure.
C5_ThreeOutcomes ==
  epc = "returned" => eres.kind \in {"table", "timeout", "engine_failure"}

\* C5 (amended): every Invoke eventually returns exactly one of a Tabular
\* Result, a timeout failure, an engine failure or a decode failure; the wait
\* never exceeds the timeout, and a process still running when the timeout
\* elapses is killed and a timeout failure returned.
EngineReturnOk ==
  /\ eres.kind \in {"table", "timeout", "engine_failure", "decode_failure"}
  /\ proc.state \in {"exited", "killed"}
  /\ (eres.kind = "timeout") <=> (proc.state = "killed")
  /\ eres.kind = "timeout" => elapsed = ereq.timeout
  /\ eres.kind = "table" => (proc.code = 0 /\ eres.table = proc.out /\ EngineValidate(eres.table))
  /\ eres.kind = "engine_failure" => proc.code # 0
  /\ eres.kind = "decode_failure" => (proc.code = 0 /\ ~EngineValidate(proc.out))
  /\ eres.kind # "table" => eres.table = NoTable

C5_BoundedInvoke ==
  /\ [](epc = "waiting" => elapsed <= ereq.timeout)
  /\ [](epc = "returned" => EngineReturnOk)
  /\ [](epc # "returned" => eres = NoRes)
  /\ (epc = "waiting") ~> (epc = "returned")

C5_Witness ==
  epc = "returned" /\ eres.kind = "timeout" /\ proc.state = "killed" /\ elapsed = ereq.timeout

\* the row-length invariant of a Tabular Result
RowLengthInvariant(t) == \A i \in 1..Len(t.rows) : Len(t.rows[i]) = Len(t.headers)

\* C4: when the engine call of a run fails with a timeout, the run issues no
\* token and opens no result window, does not close the panel window, shows
\* the error and sets running back to false.
C4_TimeoutKeepsPanel ==
  lastEngine = "timeout" =>
    /\ runCalls.issue = 0 /\ runCalls.open = 0 /\ runCalls.close = 0
    /\ atoken = NoTok
    /\ awin = "open"
    /\ aerror = "timeout"
    /\ running = FALSE
    /\ apc = "idle"

C4_Witness ==
  /\ lastEngine = "timeout" /\ aerror = "timeout" /\ ~running /\ awin = "open"
  /\ runCalls.engine = 1 /\ runCalls.issue = 0

\* C6: no automatic retry: a run makes at most one engine call, engine calls
\* never outnumber Run clicks, a handlePayload activation makes at most one
\* consume call, consume calls never outnumber delivered payloads, and a
\* failed run or consume leaves no call in flight.
C6_NoAutomaticRetry ==
  /\ runCalls.engine <= 1
  /\ engineCalls <= clicks
  /\ \A h \in Handlers : hcalls[h] <= 1
  /\ consumeCalls <= delivered
  /\ lastEngine \in {"timeout", "engine_failure", "decode_failure"} => apc = "idle"
  /\ \A h \in Handlers : hpc[h] = "consume" => hcalls[h] = 1

C6_Witness ==
  /\ lastEngine \in {"timeout", "engine_failure"}
  /\ engineCalls = 2 /\ clicks = 2 /\ apc = "idle"
  /\ rerror = "not_found" /\ consumeCalls = 2 /\ delivered = 2

\* C7: a table with a row whose length differs from headers.length is
\* rejected by zParsedTable with one issue per such row; every table in the
\* result page's entries, and every table the design page obtained a token
\* for, satisfies the row-length invariant and is the issued table unpadded.
C7_RowLengthAtBoundary ==
  /\ \A t \in SampleTables :
       /\ ~RowLengthInvariant(t) => ~ZParsedTableParse(t).success
       /\ Cardinality(ZRowIssues(t)) =
            Cardinality({i \in 1..Len(t.rows) : Len(t.rows[i]) # Len(t.headers)})
  /\ \A i \in 1..Len(entries) :
       /\ RowLengthInvariant(entries[i].result)
       /\ \A r \in 1..Len(entries[i].result.rows) :
            Len(entries[i].result.rows[r]) = Len(meta[entries[i].id].result.rows[r])
  /\ pkind = "design" => \A tok \in DOMAIN meta : RowLengthInvariant(meta[tok].result)

C7_Witness ==
  /\ rerror = "schema"
  /\ \E tok \in DOMAIN meta :
       /\ ~RowLengthInvariant(meta[tok].result)
       /\ \A i \in 1..Len(entries) : entries[i].id # tok
  /\ Len(entries) > 0

PosIn(q, x) == CHOOSE i \in 1..Len(q) : q[i] = x

C9_CodecRoundTrip ==
  /\ codecPc = "decoded" =>
       /\ cval.k = "NA" => decoded = WNull
       /\ cval.k = "NaN" => decoded = WStr("NaN!")
       /\ cval.k = "Inf" => decoded = WStr("Inf!")
       /\ cval.k = "-Inf" => decoded = WStr("-Inf!")
       /\ cval.k = "num" => decoded.k \in {"str", "num"} /\ decoded \notin {WStr("NaN!"), WStr("Inf!"), WStr("-Inf!")}
  /\ codecPc = "decodedForeign" =>
       decoded = (IF wire \in {WNull, WUndef} THEN WNull ELSE wire)

\* C10: in the correlation table every off-diagonal correlation that is NA
\* and every off-diagonal p-value that is NA is written as null; no string
\* stands for the missing value.
C10_MissingIsNull ==
  corrPc \in {"parsed", "parsedLegacy"} =>
    \A ij \in Pairs(corrIn.n) :
      /\ RIsNa(corrRes.corr[ij]) => corrOut.rows[ij[1]][ij[2] + 1] = WNull
      /\ RIsNa(corrRes.p[ij]) => corrOut.rows[corrIn.n + 1 + ij[1]][ij[2] + 1] = WNull

C12_InfiniteT ==
  corrPc \in {"tested", "parsed", "parsedLegacy"} =>
    \A ij \in Cells(corrIn.n) :
      (/\ ij[1] # ij[2]
       /\ corrRes.corr[ij] \in {RNum(10000), RNum(-10000)}
       /\ corrRes.n[ij] >= 3) =>
        LET up == corrRes.corr[ij] = RNum(10000)
        IN /\ corrRes.t[ij] = (IF up THEN RInf ELSE RNegInf)
           /\ corrRes.p[ij] =
                (IF corrIn.alt = "two.sided" THEN RNum(0)
                 ELSE IF corrIn.alt = "greater" THEN (IF up THEN RNum(0) ELSE RNum(10000))
                 ELSE (IF up THEN RNum(10000) ELSE RNum(0)))

C12_Witness ==
  /\ corrPc = "tested"
  /\ corrIn.alt = "less"
  /\ corrRes.corr[<<1, 2>>] = RNum(-10000)
  /\ corrRes.n[<<1, 2>>] = 3
  /\ corrRes.t[<<1, 2>>] = RNegInf
  /\ corrRes.p[<<2, 1>>] = RNum(0)

\* the perfectly co-linear columns [1,2,3] and [2,4,6]
Colinear == [i \in 1..2 |-> IF i = 1 THEN <<1, 2, 3>> ELSE <<2, 4, 6>>]

Sentinels == {WStr("NaN!"), WStr("Inf!"), WStr("-Inf!")}

\* C13: the two-sided correlation of [1,2,3] and [2,4,6] shows r as 1.000
\* and the p-value cell as "<.001", and no NaN or infinity sentinel is in
\* the table.
C13_ColinearEndToEnd ==
  (corrPc = "parsed" /\ corrIn.x = Colinear /\ corrIn.alt = "two.sided") =>
    /\ corrOut.rows[1][3] \in {WStr("1.000"), WStr("1.000***")}
    /\ corrOut.rows[4][3] = WStr("<.001")
    /\ \A i \in 1..Len(corrOut.rows) : \A j \in 1..Len(corrOut.rows[i]) :
         corrOut.rows[i][j] \notin Sentinels

\* C14: under the pairwise-complete policy n[i][j] is the number of rows in
\* which columns i and j are both non-missing (for i = j the non-missing
\* count of column i) and n is symmetric; under the all-present and
\* row-complete policies every entry of n is the same count.
C14_PairwiseSampleSizes ==
  corrPc \in {"tested", "parsed", "parsedLegacy"} =>
    LET x == corrIn.x
        both(i, j) == {k \in 1..NRows : x[i][k] # NaCell /\ x[j][k] # NaCell}
    IN /\ corrIn.use = "pairwise.complete.obs" =>
            \A ij \in Cells(corrIn.n) :
              /\ corrRes.n[ij] = Cardinality(both(ij[1], ij[2]))
              /\ corrRes.n[ij] = corrRes.n[<<ij[2], ij[1]>>]
       /\ corrIn.use # "pairwise.complete.obs" =>
            \A ij \in Cells(corrIn.n) : corrRes.n[ij] = corrRes.n[<<1, 1>>]

C14_Witness ==
  /\ corrPc = "tested"
  /\ corrIn.use = "pairwise.complete.obs"
  /\ corrRes.n[<<1, 1>>] = 3
  /\ corrRes.n[<<1, 2>>] = 2
  /\ corrRes.n[<<2, 2>>] = 2

\* the digits of t thousandths: whole part, point, three decimals
Decimals3(t) ==
  ToString(t \div 1000) \o "." \o ToString((t \div 100) % 10)
    \o ToString((t \div 10) % 10) \o ToString(t % 10)

\* the multiple of a thousandth nearest to v ten-thousandths, ties upward
NearestThousandth(v) == CHOOSE t \in 0..(v \div 10 + 1) : 10 * t - 5 <= v /\ v < 10 * t + 5

\* C15: FormatPval of a finite p >= 0 rounds p half-up to 3 decimals; if
\* p > 0 and the rounded value is 0 the result is "<.001", otherwise the
\* rounded value with exactly 3 decimals; a missing or non-finite p gives
\* the missing value.
C15_FormatPval ==
  [][EncodeFormatPval =>
       /\ cval.k # "num" => rval' = RNa
       /\ (cval.k = "num" /\ ~cval.neg) =>
            LET t == NearestThousandth(cval.v)
            IN rval' = (IF cval.v > 0 /\ t = 0 THEN RStr("<.001") ELSE RStr(Decimals3(t)))]_vars

C15_Witness ==
  /\ codecPc = "written"
  /\ cval = RNum(4)
  /\ rval = RStr("<.001")
  /\ wire = WStr("<.001")

NearestMagnitude(m, d) ==
  LET u == Pow10(4 - d)
  IN CHOOSE t \in 0..(m \div u + 1) : 2 * u * t - u <= 2 * m /\ 2 * m < 2 * u * t + u

\* C17: .RoundHalfUp(x, d) is the multiple of 10^-d nearest to x, ties away
\* from zero, and RoundHalfUp(-x, d) = -RoundHalfUp(x, d); FormatNum prints
\* it with d = 3 and FormatDf with d = 0 as an integer.
C17_RoundHalfUp ==
  [][/\ (EncodeFormatNum /\ cval.k = "num") =>
          LET t == NearestMagnitude(Abs(cval.v), 3)
          IN /\ RoundHalfUp(cval, 3).t = t
             /\ RoundHalfUp([cval EXCEPT !.v = -cval.v, !.neg = ~cval.neg], 3).t = t
             /\ rval' = RStr((IF cval.neg THEN "-" ELSE "") \o Decimals3(t))
                  \/ (t = 0 /\ rval' = RStr(Decimals3(t)))
     /\ (EncodeFormatDf /\ cval.k = "num") =>
          LET t == NearestMagnitude(Abs(cval.v), 0)
          IN /\ RoundHalfUp(cval, 0).t = t
             /\ RoundHalfUp([cval EXCEPT !.v = -cval.v, !.neg = ~cval.neg], 0).t = t
             /\ rval' = RStr((IF cval.neg /\ t > 0 THEN "-" ELSE "") \o ToString(t))]_vars

C17_Witness ==
  /\ codecPc = "encoded"
  /\ cval = RNum(-25000)
  /\ rval = RStr("-3")

\* the mean a row shows, in ten-thousandths, when it is a number
ShownMean(row) == AsNumeric(row[2])

\* C18: with criterion mean (mean, mean_asc, mean_desc) the sorter returns
\* the same headers and the same rows, reordered by the number in the Mean
\* column, ascending unless mean_desc; rows whose mean is missing or not a
\* number come last either way; with default or an unsupported criterion
\* the table is returned unchanged.
C18_DescriptiveSort ==
  sortPc = "sorted" =>
    LET o == IF sortIn.order = "Mean_Desc" THEN "mean_desc" ELSE sortIn.order
        rin == sortParsed.rows
        rout == sortOut.rows
    IN /\ sortOut.headers = sortParsed.headers
       /\ Len(rout) = Len(rin)
       /\ \A i \in 1..Len(rin) : \E j \in 1..Len(rout) : rout[j] = rin[i]
       /\ o \notin {"mean", "mean_asc", "mean_desc"} => rout = rin
       /\ o \in {"mean", "mean_asc", "mean_desc"} =>
            \A i \in 1..Len(rout) : \A j \in 1..Len(rout) :
              i < j =>
                /\ rout[i][2].k # "str" => rout[j][2].k # "str"
                /\ (rout[i][2].k = "str" /\ rout[j][2].k = "str") =>
                     IF o = "mean_desc" THEN ShownMean(rout[i]).v >= ShownMean(rout[j]).v
                     ELSE ShownMean(rout[i]).v <= ShownMean(rout[j]).v

C18_Witness ==
  /\ sortPc = "sorted"
  /\ sortIn.order = "mean_desc"
  /\ Len(sortOut.rows) = 3
  /\ sortParsed.rows[1][2] = RNa
  /\ sortOut.rows[1][2] = RStr("0.020")
  /\ sortOut.rows[2][2] = RStr("-0.015")
  /\ sortOut.rows[3][2] = RNa

\* C19: for every test family, when the solver fails for validated
\* parameters RunDesign still returns a one-row table whose Required N is
\* missing and whose Additional cell starts with "ERROR:"; the call does not
\* abort.
C19_SolverFailureInRow ==
  (/\ callPc \in {"returned", "stopped", "shown"}
   /\ callIn.kind = "design"
   /\ ~callIn.solverOk
   /\ callOut.cause # "validation") =>
    /\ callOut.kind = "table"
    /\ Len(callOut.table.rows) = 1
    /\ callOut.table.rows[1][1] = WNull
    /\ StartsWith(callOut.table.rows[1][5].s, "ERROR:")

\* C20: every validation failure and every contract violation the engine
\* raises is a message "ERR-nnn: text" whose code and text are an entry of
\* ERR_MESSAGES; StopWithErrCode is never called with an unknown code.
C20_ClosedErrorRegistry ==
  (callPc = "stopped" /\ callOut.cause \in {"validation", "contract"}) =>
    /\ callOut.msg # "unknown error code"
    /\ \E c \in DOMAIN ERR_MESSAGES : callOut.msg = c \o ": " \o ERR_MESSAGES[c]

\* C21: correlation and reliability called on a data frame with fewer than
\* two numeric columns stop with a validation failure and return no table;
\* correlation reports a non-numeric column (ERR-811) before the column
\* count (ERR-831).
C21_MinimumColumns ==
  (/\ callPc \in {"returned", "stopped", "valid", "shown"}
   /\ callIn.kind \in {"correlation", "runReliability"}
   /\ callIn.isDf
   /\ callIn.nnum < 2) =>
    /\ callOut.kind = "stop"
    /\ callOut.cause = "validation"
    /\ callOut.table = NoTable
    /\ (callIn.kind = "correlation" /\ ~callIn.numeric) =>
          callOut.msg = "ERR-811: " \o ERR_MESSAGES["ERR-811"]
    /\ (callIn.kind = "correlation" /\ callIn.numeric) =>
          callOut.msg = "ERR-831: " \o ERR_MESSAGES["ERR-831"]

\* the rows of the block of the b-th requested method, and the number of
\* rows that precede it in the combined table (its marker included)
BlockRows(b) == CorrParsedBy(mcIn, MethodsOf(mcIn)[b]).rows

BlockStart(b) == (b - 1) * (2 * Len(mcIn.x) + 2)

\* C22: for k >= 1 requested methods the combined table has the header row
\* of the first method and the k method blocks in request order, with the
\* row "--- <method> ---" before every block but the first; an empty method
\* list gives the pearson table. CorrelationTables reads the k sections
\* back from it.
C22_MultiMethodBlocks ==
  LET ms == MethodsOf(mcIn)
      k == Len(ms)
      n == Len(mcIn.x)
  IN (mcPc \in {"returned", "viewed"}) =>
       /\ mcOut.headers = CorrParsedBy(mcIn, ms[1]).headers
       /\ Len(mcOut.rows) = k * (2 * n + 1) + (k - 1)
       /\ \A b \in 1..k :
            /\ \A r \in 1..(2 * n + 1) : mcOut.rows[BlockStart(b) + r] = BlockRows(b)[r]
            /\ b > 1 => mcOut.rows[BlockStart(b)] =
                           <<WStr("--- " \o ms[b] \o " ---")>> \o [j \in 1..n |-> WStr("")]
       /\ mcIn.methods = << >> => mcOut = CorrParsedBy(mcIn, "pearson")
       /\ mcPc = "viewed" =>
            /\ Len(mcView) = k
            /\ \A b \in 1..k :
                 /\ mcView[b].title = IF b = 1 THEN NoTitle ELSE ms[b]
                 /\ mcView[b].corr = [r \in 1..n |-> RowText(BlockRows(b)[r])]
                 /\ mcView[b].p = [r \in 1..n |-> RowText(BlockRows(b)[n + 1 + r])]

\* C22 witness: two different methods were requested, their blocks differ,
\* and the combined table was rendered
C22_Witness ==
  /\ mcPc = "viewed"
  /\ Len(mcIn.methods) = 2
  /\ mcIn.methods[1] # mcIn.methods[2]
  /\ BlockRows(1) # BlockRows(2)
  /\ Len(mcView) = 2

\* the three blocks of the regression table: title, index of the marker row,
\* number of body rows
RegressionLayout ==
  LET k == Len(TermsOf(mbIn))
  IN <<[title |-> "Model Summary", at |-> 1, body |-> 1],
       [title |-> "Coefficients", at |-> 4, body |-> k],
       [title |-> "ANOVA", at |-> 6 + k, body |-> 3]>>

\* the table built by .LinearRegressionParsed has exactly the three labeled
\* blocks, each a marker row, a header row and its body rows
RegressionTableShape ==
  LET k == Len(TermsOf(mbIn))
      rows == mbData.rows
      lay == RegressionLayout
  IN /\ Len(rows) = 10 + k
     /\ \A r \in 1..Len(rows) : Len(rows[r]) = 7
     /\ \A r \in 1..Len(rows) : IsSectionLabel(rows[r][1]) <=> r \in {lay[b].at : b \in 1..3}
     /\ \A b \in 1..3 : rows[lay[b].at][1] = WStr("--- " \o lay[b].title \o " ---")
     /\ \A i \in 1..k : rows[5 + i][1] = WStr(TermsOf(mbIn)[i])
     /\ <<rows[8 + k][1], rows[9 + k][1], rows[10 + k][1]>> =
          <<WStr("Regression"), WStr("Residuals"), WStr("Total")>>

\* a row of texts is the row of cells itself: every cell is that string
SameRow(cells, texts) ==
  /\ Len(cells) = Len(texts)
  /\ \A j \in 1..Len(cells) : cells[j].k = "str" /\ cells[j].s = texts[j]

\* C23 as stated: the regression table is three labeled blocks in the order
\* Model Summary, Coefficients, ANOVA, and MultiBlockTable splits it back
\* into these blocks with the same titles, the same header rows and the same
\* body rows.
C23_SameBlocksBack ==
  (mbIn # NoFit /\ mbPc = "done") =>
    /\ RegressionTableShape
    /\ Len(mbBlocks) = 3
    /\ \A b \in 1..3 :
         LET l == RegressionLayout[b]
         IN /\ mbBlocks[b].title = l.title
            /\ SameRow(mbData.rows[l.at + 1], mbBlocks[b].headers)
            /\ Len(mbBlocks[b].rows) = l.body
            /\ \A r \in 1..l.body : SameRow(mbData.rows[l.at + 1 + r], mbBlocks[b].rows[r])

\* the blocks read back from the regression table: titles unchanged, header
\* cells through the label dictionary, body cells as text with a missing
\* cell as the empty string
BlocksReadBack ==
  (mbIn # NoFit /\ mbPc # "start") =>
    /\ RegressionTableShape
    /\ mbPc = "done" =>
         /\ Len(mbBlocks) = 3
         /\ \A b \in 1..3 :
              LET l == RegressionLayout[b]
              IN /\ mbBlocks[b].title = l.title
                 /\ mbBlocks[b].headers =
                      [j \in 1..7 |-> MapHeaderToJa(CellText(mbData.rows[l.at + 1][j]))]
                 /\ mbBlocks[b].rows = [r \in 1..l.body |-> RowText(mbData.rows[l.at + 1 + r])]

\* C23 (amended): the regression table is exactly the three labeled blocks
\* Model Summary, Coefficients, ANOVA (marker row, header row, 1 / one per
\* term / 3 body rows); MultiBlockTable splits it back into three blocks with
\* these titles, the header rows translated cell by cell through its label
\* dictionary and the body rows as text, a missing cell read as the empty
\* string; and its scan terminates for every input table.
C23_RegressionBlocks == [](BlocksReadBack) /\ <>(mbPc = "done")

\* C23 witness: a fit with an intercept and two terms was split into its
\* three blocks, whose coefficient block holds a missing cell
C23_Witness ==
  /\ mbPc = "done"
  /\ mbIn.intercept
  /\ Len(mbIn.indep) = 2
  /\ Len(mbBlocks) = 3
  /\ Len(mbBlocks[2].rows) = 3
  /\ mbData.rows[6][3] = WNull
  /\ mbBlocks[2].rows[1][3] = ""

\* C24: the table every analysis handler returns (descriptive, correlation
\* with any number of methods, reliability, regression with any number of
\* terms, design) has in every row, separator and section-marker rows
\* included, exactly as many cells as there are headers.
C24_RowLengths ==
  /\ RowLengthInvariant(sortParsed)
  /\ RowLengthInvariant(sortOut)
  /\ RowLengthInvariant(mcOut)
  /\ RowLengthInvariant(callOut.table)
  /\ RowLengthInvariant(mbData)

\* C24 witness: a correlation table of two methods, with its p-value
\* separators and its section marker, was returned
C24_Witness ==
  /\ mcPc = "returned"
  /\ Len(mcIn.methods) = 2
  /\ \E r \in 1..Len(mcOut.rows) : IsSectionLabel(mcOut.rows[r][1])
  /\ \E r \in 1..Len(mcOut.rows) : mcOut.rows[r][1] = WStr("p-value")

\* C25: in a panel at most one engine request is in flight at any time, and
\* a Run click starts a run only while no run is pending (running is false),
\* for every sequence of Run clicks.
C25_OneRequestInFlight ==
  /\ [](inflight <= 1 /\ (inflight = 1 => running /\ apc = "run"))
  /\ [][clicks' # clicks => (~running /\ apc = "idle" /\ inflight = 0)]_vars

\* C25 witness: a second run, started after the first one failed, has its
\* engine request in flight
C25_Witness ==
  /\ clicks = 2
  /\ engineCalls = 2
  /\ inflight = 1
  /\ running

\* the calls of the current run are a prefix of engine, issue, open, close,
\* each made once and only after the step before it succeeded
StepsInOrder ==
  /\ \A f \in DOMAIN runCalls : runCalls[f] <= 1
  /\ runCalls.issue = 1 => (runCalls.engine = 1 /\ lastEngine = "table")
  /\ runCalls.open = 1 => runCalls.issue = 1
  /\ runCalls.close = 1 => (runCalls.open = 1 /\ rwin)

\* a run that ended without closing the window failed: its error is shown,
\* the window is open and running is false; running is true only while a
\* run is pending or after the window was closed
RunOutcome ==
  /\ (apc = "idle" /\ clicks > 0) => (aerror # "null" /\ ~running /\ awin = "open")
  /\ running => (apc \notin {"idle"} /\ (apc = "closed" <=> awin = "closed"))
  /\ awin = "closed" => (running /\ aerror = "null" /\ runCalls = [f \in DOMAIN runCalls |-> 1])

\* a step starts only from the position after the step before it, and a
\* failing step ends the run without making a call
StepStarts ==
  /\ runCalls'.engine > runCalls.engine => apc = "build"
  /\ runCalls'.issue > runCalls.issue => (apc = "run" /\ lastEngine' = "table")
  /\ runCalls'.open > runCalls.open => apc = "issue"
  /\ runCalls'.close > runCalls.close => apc = "timer"
  /\ (apc # "idle" /\ apc' = "idle") =>
       (aerror' # "null" /\ ~running' /\ awin' = "open" /\ runCalls' = runCalls)

\* C26: in executeAnalysis the steps build dataset, run engine, issue token,
\* open or reuse the result window, close the analysis window happen in
\* this order, each only after the previous one succeeded; when a step
\* fails no later step runs, the error is shown, the window stays open and
\* running is reset to false; running stays true only when the window was
\* closed.
C26_PipelineOrder ==
  /\ [](pkind = "analysis" => (StepsInOrder /\ RunOutcome))
  /\ [][pkind = "analysis" => StepStarts]_vars

\* C26 witness: build, engine and issue succeeded, opening the result window
\* failed, and the run ended with the error shown
C26_Witness ==
  /\ pkind = "analysis"
  /\ apc = "idle"
  /\ aerror = "open_failed"
  /\ runCalls = [engine |-> 1, issue |-> 1, open |-> 1, close |-> 0]
  /\ ~running
  /\ awin = "open"

\* the entries appended for token t
EntriesOf(t) == {i \in 1..Len(entries) : entries[i].id = t}

\* more payloads were handled than tokens were issued: some token reached
\* handlePayload more than once
DuplicateDelivery == delivered > Cardinality(DOMAIN meta)

\* C27: when the same token reaches the result page more than once (from
\* the pending payload and from the result:load event, in any interleaving
\* with the asynchronous consume), at most one entry for that token is
\* appended and the second delivery shows no handoff error (the store's
\* answer for a token that was already consumed) to the user.
C27_DuplicateDelivery ==
  /\ \A t \in DOMAIN meta : Cardinality(EntriesOf(t)) <= 1
  /\ DuplicateDelivery => rerror # "not_found"

\* the file at output_path is the one the run found
OutputUntouched == outWrites = 0 /\ outFile \in {NoFile, StaleFile}

\* C28: when cli.R stops at any step (fewer than three arguments, a missing
\* input file, a missing module, an unknown analysis name, or a stop raised
\* by the handler) the output file is not written; the output file is
\* written only after the handler has returned a table, and it then holds
\* that table.
C28_NoOutputOnError ==
  /\ [](scPc \in {"args", "load", "read", "dispatch", "stopped"} => OutputUntouched)
  /\ [](outWrites > 0 => (outWrites = 1 /\ scOut.kind = "table" /\ scErr = ""
                            /\ outFile = [exists |-> TRUE, content |-> scOut.table]))
  /\ [][outFile' # outFile => (scPc = "write" /\ scOut.kind = "table")]_vars

\* C28 witness: the handler raised a stop and a file left at output_path by
\* an earlier run is still the old one
C28_Witness ==
  /\ scPc = "stopped"
  /\ scOut.kind = "stop"
  /\ outFile = StaleFile
  /\ outWrites = 0

\* the selection as the selector shows it: the dependent is not among the
\* independents, no independent is listed twice, and the left pane holds
\* the variables that are neither
SelectionInvariant ==
  /\ Truthy(dependent) => dependent[1] \notin ElemsOf(independents)
  /\ \A i \in 1..Len(independents) : \A j \in 1..Len(independents) :
       i # j => independents[i] # independents[j]
  /\ ElemsOf(available) = {v \in ElemsOf(allVariables) :
                             ~(Truthy(dependent) /\ v = dependent[1]) /\ v \notin ElemsOf(independents)}
  /\ ElemsOf(independents) \subseteq ElemsOf(allVariables)
  /\ dependent # << >> => dependent[1] \in ElemsOf(allVariables)

\* a new dependent is the one checked variable of the left pane
AddDependentStep ==
  (dependent' # dependent /\ dependent' # << >>) =>
     (Len(Picked) = 1 /\ dependent' = <<Picked[1]>> /\ independents' = independents)

ItemOutcome ==
  (irPc = "loop" /\ irI <= Len(irItems)) =>
    LET it == irItems[irI]
        skipped == irPc' = "loop" /\ irI' = irI + 1 /\ irX' = irX /\ irLabels' = irLabels
    IN /\ ItemIgnored(it) => skipped
       /\ (~ItemIgnored(it) /\ ItemMissing(it, irCols)) => (irPc' = "stopped" /\ irX' = irX)
       /\ (~ItemIgnored(it) /\ ~ItemMissing(it, irCols) /\ HasColumn(ColNamesOf(irX), LabelChr(it))) => skipped

\* every column the data has keeps its place, its name and its values
ColumnsKept ==
  /\ Len(irX') >= Len(irX)
  /\ \A i \in 1..Len(irX) : irX'[i] = irX[i]

\* a label joins interaction_labels exactly when its product column was
\* appended to the data
LabelWithColumn ==
  /\ irLabels' # irLabels <=> irX' # irX
  /\ irLabels' # irLabels =>
       /\ irLabels' = Append(irLabels, LabelChr(irItems[irI]))
       /\ irX' = Append(irX, [name |-> LabelChr(irItems[irI]), vals |-> ProductColumn(irX, irItems[irI])])

\* the independents after the loop are the given ones followed by the
\* labels of the product columns, which are the columns added to the data
IndependentsExtended ==
  /\ Len(irX) = Len(irCols) + Len(irLabels)
  /\ \A i \in 1..Len(irCols) : irX[i].name = irCols[i]
  /\ irPc = "done" =>
       /\ Len(irIndep) >= Len(irLabels)
       /\ \A i \in 1..Len(irLabels) :
            /\ irIndep[Len(irIndep) - Len(irLabels) + i] = irLabels[i]
            /\ irX[Len(irCols) + i].name = irLabels[i]
       /\ \A i \in 1..(Len(irIndep) - Len(irLabels)) : HasColumn(irCols, irIndep[i])

\* C30: when RunRegression builds the interaction terms, an item is skipped
\* when left or right is empty or left equals right, or when its label
\* already names a column of the data; an item naming a column absent from
\* the data stops with an error; every existing column of the data keeps
\* its values, and a label is added to the independents only when a new
\* product column was created for it.
C30_InteractionColumns ==
  /\ [](irPc # "idle" => IndependentsExtended)
  /\ [][irPc # "idle" => (ItemOutcome /\ ColumnsKept /\ LabelWithColumn)]_vars

\* C30 witness: one item was skipped because its label names a column of
\* the data, another created its product column, and the label of that one
\* alone joined the independents
C30_Witness ==
  /\ irPc = "done"
  /\ irItems = <<[left |-> "a", right |-> "b", label |-> "a"], [left |-> "a", right |-> "b", label |-> "ab"]>>
  /\ irX = Append(FrameYAB, [name |-> "ab", vals |-> <<3, NaCell>>])
  /\ irIndep = <<"a", "b", "ab">>

====
